---- MODULE Spec2Model ----
(***************************************************************************)
(* Deployment orchestrator and multi-layer health verification of the      *)
(* DocGen MCP servers: scripts/python/mcp_deploy.py, mcp_server_setup.py   *)
(* and mcp_health_monitor.py; the health monitor with auto-restart and the *)
(* server manager of scripts/python/mcp: health_monitor.py, mcp_manager.py.*)
(* The functions that scan for a free port, load and save .env.mcp, and    *)
(* probe an HTTP endpoint are also run by themselves on bounded inputs,    *)
(* and two runs of start_mcp_servers are run at once against one file.     *)
(*                                                                         *)
(* The backend (docker, the TCP ports, the HTTP health endpoints) is the   *)
(* environment: every query of it draws its answer nondeterministically at *)
(* the moment of the query, and the answer is kept in the variable the     *)
(* code keeps it in.  The clock counts seconds and is advanced by the      *)
(* sleeps of the polling loops only.                                       *)
(***************************************************************************)
EXTENDS Integers, Sequences, FiniteSets, TLC

\* Largest --timeout (seconds) a run is started with.
MaxTimeout == 10

\* time.sleep(5) of the wait loops.
PollInterval == 5

\* Code meaning "no HTTP response": requests raised / curl could not connect.
NoResponse == 0

Services == {"github", "main"}

ContainerOf(s) == "docgen-mcp-" \o s

ContainerNames == {ContainerOf(s) : s \in Services}

\* Keys of the dict assign_dynamic_ports returns, in insertion order.
PortOrder == <<"github", "main", "main_health">>

PortNames == {PortOrder[i] : i \in 1..Len(PortOrder)}

EmptyMap == [x \in {} |-> 0]

Min(S) == CHOOSE x \in S : \A y \in S : x <= y

-----------------------------------------------------------------------------
(* Strings *)

\* Python's `sub in s`.
Contains(sub, s) ==
    \E i \in 1..(Len(s) - Len(sub) + 1) : SubSeq(s, i, i + Len(sub) - 1) = sub

\* Index of the first occurrence of sub in s, 0 when there is none.
Find(sub, s) ==
    LET hits == {i \in 1..(Len(s) - Len(sub) + 1) : SubSeq(s, i, i + Len(sub) - 1) = sub}
    IN  IF hits = {} THEN 0 ELSE Min(hits)

\* Python's s.split(sep, 1): one part when sep does not occur, else two.
SplitOnce(s, sep) ==
    LET i == Find(sep, s)
    IN  IF i = 0 THEN <<s>>
        ELSE <<SubSeq(s, 1, i - 1), SubSeq(s, i + Len(sep), Len(s))>>

\* Python's s.replace(old, new): every occurrence, left to right.
RECURSIVE ReplaceAll(_, _, _)
ReplaceAll(s, old, new) ==
    LET i == Find(old, s)
    IN  IF i = 0 THEN s
        ELSE SubSeq(s, 1, i - 1) \o new
                \o ReplaceAll(SubSeq(s, i + Len(old), Len(s)), old, new)

-----------------------------------------------------------------------------
(* The container backend: what `docker ps` prints *)

\* State.Health.Status of a running container that has a HEALTHCHECK.
BackendHealth == {"starting", "healthy", "unhealthy"}

\* The {{.Status}} column docker prints for a running container.
DockerStatusText(h) ==
    CASE h = "healthy"   -> "Up 2 minutes (healthy)"
      [] h = "unhealthy" -> "Up 2 minutes (unhealthy)"
      [] h = "starting"  -> "Up 2 seconds (health: starting)"

\* One line of --format "{{.Names}}: {{.Status}}".
PsLine(c, h) == c \o ": " \o DockerStatusText(h)

\* Every stdout of `docker ps --filter name=docgen-mcp`: one line per running
\* container (a container that is not running is not listed).
PsListings ==
    UNION {{ {PsLine(c, f[c]) : c \in S} : f \in [S -> BackendHealth] }
           : S \in SUBSET ContainerNames}

\* What the backend itself reports for the container of a printed line.
BackendReportsHealthy(status) == status = DockerStatusText("healthy")

-----------------------------------------------------------------------------
(* The probes of the four layers *)

\* check_container_status: the dict built from the printed lines.
ParseContainers(lines) ==
    LET parts == {SplitOnce(l, ": ") : l \in lines}
        good  == {p \in parts : Len(p) = 2}
        entry(n) == CHOOSE p \in good : p[1] = n
    IN  [n \in {p[1] : p \in good} |->
            [running |-> Contains("Up", entry(n)[2]),
             healthy |-> Contains("healthy", entry(n)[2]),
             status  |-> entry(n)[2]]]

\* The dict of every listing docker can print.
ContainersOf == [lines \in PsListings |-> ParseContainers(lines)]

\* comprehensive_health_check: all(container["healthy"] ...).
MonitorContainersHealthy(cs) == \A c \in DOMAIN cs : cs[c].healthy

\* check_server_health: all("healthy" in status for status in statuses if status).
SetupContainersHealthy(lines) == \A l \in lines : l = "" \/ Contains("healthy", l)

\* socket.connect_ex: 0 when something listens on the port, else an errno.
ConnectEx(listening) == IF listening THEN 0 ELSE 111

\* requests' Response.ok: the status code is below 400.
ResponseOk(code) == code < 400

\* One entry of check_http_health_endpoints' result.
MonitorHttpEntry(port, answer) ==
    IF answer = NoResponse
    THEN [port |-> port, status_code |-> NoResponse, healthy |-> FALSE]
    ELSE [port |-> port, status_code |-> answer, healthy |-> ResponseOk(answer)]

\* What a health endpoint sends as the body of its answer: a JSON object,
\* plain text, or nothing.
Bodies == {"{}", "OK", ""}

\* response.json() succeeds: the body is a JSON document.
IsJson(body) == body = "{}"

\* One round of the try block of check_http_health_endpoints.  On an ok
\* response the body is parsed (response.json()); the JSONDecodeError of
\* requests is a RequestException, so a body that is no JSON leads to the
\* entry of the except branch.
MonitorHttpProbe(port, answer, body) ==
    IF answer # NoResponse /\ ResponseOk(answer) /\ ~IsJson(body)
    THEN [port |-> port, status_code |-> NoResponse, healthy |-> FALSE]
    ELSE MonitorHttpEntry(port, answer)

\* Exit status of `curl -s [-f] URL`: 7 when it cannot connect, 22 with -f on
\* a status of 400 or more, 0 on every other HTTP response.
CurlExit(failOnError, answer) ==
    IF answer = NoResponse THEN 7
    ELSE IF failOnError /\ answer >= 400 THEN 22
    ELSE 0

\* check_server_health runs `curl -s` and tests returncode != 0.
SetupHttpEntry(port, answer) ==
    [port |-> port, status_code |-> answer, healthy |-> CurlExit(FALSE, answer) = 0]

\* What a health endpoint answers: nothing, or a status code.
HttpAnswers == {NoResponse, 200, 500}

\* What the health endpoint of a server answers a probe of the monitor with:
\* nothing, 200 with a JSON body, 200 with a body that is no JSON, or 500.
HttpResponses ==
    { [status |-> NoResponse, body |-> ""], [status |-> 200, body |-> "{}"],
      [status |-> 200, body |-> "OK"], [status |-> 500, body |-> ""] }

StatusOf(response) == [n \in DOMAIN response |-> response[n].status]

BodyOf(response) == [n \in DOMAIN response |-> response[n].body]

\* The port the HTTP layer probes for entry n of the ports dict.
CheckPort(ps, n) ==
    IF n = "main" /\ "main_health" \in DOMAIN ps THEN ps["main_health"] ELSE ps[n]

\* check_tcp_connectivity(ports): every port but main_health is probed.
CheckTcpConnectivity(ps, listening) ==
    [n \in DOMAIN ps \ {"main_health"} |->
        [port |-> ps[n], accessible |-> ConnectEx(listening[n]) = 0]]

\* check_http_health_endpoints(ports): every entry of ports is probed.
CheckHttpHealthEndpoints(ps, answer, body) ==
    [n \in DOMAIN ps |-> MonitorHttpProbe(CheckPort(ps, n), answer[n], body[n])]

\* An overall section that counts a failed resource query as unhealthy.
ReportOverallWithResources(cs, tcp, http, res) ==
    [healthy            |-> /\ \A c \in DOMAIN cs : cs[c].healthy
                            /\ \A n \in DOMAIN tcp : tcp[n].accessible
                            /\ \A n \in DOMAIN http : http[n].healthy
                            /\ res = "ok",
     containers_healthy |-> \A c \in DOMAIN cs : cs[c].healthy,
     tcp_accessible     |-> \A n \in DOMAIN tcp : tcp[n].accessible,
     http_healthy       |-> \A n \in DOMAIN http : http[n].healthy]

\* generate_health_report: report["overall"], from the three all(...).
ReportOverall(cs, tcp, http, res) ==
    [healthy            |-> /\ \A c \in DOMAIN cs : cs[c].healthy
                            /\ \A n \in DOMAIN tcp : tcp[n].accessible
                            /\ \A n \in DOMAIN http : http[n].healthy,
     containers_healthy |-> \A c \in DOMAIN cs : cs[c].healthy,
     tcp_accessible     |-> \A n \in DOMAIN tcp : tcp[n].accessible,
     http_healthy       |-> \A n \in DOMAIN http : http[n].healthy]

\* generate_health_report: report["servers"], one entry for each container
\* listed, under its name without 'docgen-mcp-'; tcp and http are the entries
\* of that name, or {"accessible": False} / {"healthy": False} when the
\* results hold none.  Of each entry the verdict is kept.
ReportServers(cs, tcp, http) ==
    LET NameOf(c) == ReplaceAll(c, "docgen-mcp-", "")
        Of(n)     == CHOOSE c \in DOMAIN cs : NameOf(c) = n
    IN  [n \in {NameOf(c) : c \in DOMAIN cs} |->
            [container |-> [healthy |-> cs[Of(n)].healthy],
             tcp  |-> [accessible |-> IF n \in DOMAIN tcp THEN tcp[n].accessible ELSE FALSE],
             http |-> [healthy |-> IF n \in DOMAIN http THEN http[n].healthy ELSE FALSE]]]

\* generate_health_report: the report compiled from what the four probes,
\* made anew, returned: its overall section and whether resources were read.
GenerateHealthReport(cs, tcp, http, res) ==
    [generated |-> TRUE,
     overall   |-> ReportOverall(cs, tcp, http, res),
     resources |-> res]

\* The names a loop over ports.items() visits, in order, skipping `skip`.
Visited(ps, skip) == SelectSeq(PortOrder, LAMBDA n : n \in DOMAIN ps /\ n \notin skip)

\* The names probed by a loop that breaks at the first failing probe.
ProbedUntilFailure(order, passes) ==
    {order[i] : i \in {j \in 1..Len(order) : \A k \in 1..(j - 1) : passes[order[k]]}}

-----------------------------------------------------------------------------
(* The environment file *)

\* The *_PORT_RANGE keys assign_dynamic_ports writes.
RangeKeys == {"GITHUB_MCP_PORT_RANGE", "MAIN_MCP_PORT_RANGE", "MAIN_MCP_HEALTH_PORT_RANGE"}

\* get_server_ports: key -> service name.
ServiceNameOfKey(key) ==
    CASE key = "GITHUB_MCP_PORT_RANGE"      -> "github"
      [] key = "MAIN_MCP_PORT_RANGE"        -> "main"
      [] key = "MAIN_MCP_HEALTH_PORT_RANGE" -> "main_health"

\* get_server_ports: the start of every port range of the file.
GetServerPorts(file) ==
    [n \in {ServiceNameOfKey(k) : k \in DOMAIN file} |->
        file[CHOOSE k \in DOMAIN file : ServiceNameOfKey(k) = n][1]]

-----------------------------------------------------------------------------
(* The environment file as text: its lines, and the dict read from them.      *)
(* A dict is the sequence of its <<key, value>> items in insertion order.     *)

\* Python's s.strip(), for the blanks a line can hold here.
RECURSIVE Strip(_)
Strip(s) ==
    IF s = "" THEN s
    ELSE IF SubSeq(s, 1, 1) = " " THEN Strip(SubSeq(s, 2, Len(s)))
    ELSE IF SubSeq(s, Len(s), Len(s)) = " " THEN Strip(SubSeq(s, 1, Len(s) - 1))
    ELSE s

\* Python's s.startswith(prefix).
StartsWith(s, prefix) == Len(s) >= Len(prefix) /\ SubSeq(s, 1, Len(prefix)) = prefix

DictKeys(d) == {d[i][1] : i \in 1..Len(d)}

\* d[key] = value: in place when the key is there, else at the end.
DictSet(d, key, value) ==
    IF key \in DictKeys(d)
    THEN [i \in 1..Len(d) |-> IF d[i][1] = key THEN <<key, value>> ELSE d[i]]
    ELSE Append(d, <<key, value>>)

\* d[key], for a key of d.
DictGet(d, key) == d[CHOOSE i \in 1..Len(d) : d[i][1] = key][2]

\* What a loader gives: the dict, or the exception it raised.
Loaded(d) == [raised |-> "none", value |-> d]
Raised(e) == [raised |-> e, value |-> <<>>]

\* load_env_vars of mcp_health_monitor.py and the loop at the head of
\* assign_dynamic_ports: a line is taken `if line and not
\* line.startswith('#') and '=' in line`, every other line is passed over.
RECURSIVE LoadEnvVars(_, _)
LoadEnvVars(lines, env_vars) ==
    IF lines = <<>> THEN Loaded(env_vars)
    ELSE LET line == Strip(Head(lines))
         IN  IF line # "" /\ ~StartsWith(line, "#") /\ Contains("=", line)
             THEN LoadEnvVars(Tail(lines),
                              DictSet(env_vars, SplitOnce(line, "=")[1], SplitOnce(line, "=")[2]))
             ELSE LoadEnvVars(Tail(lines), env_vars)

\* MCPServerManager._load_env_vars: blank lines and comments are passed over;
\* `key, value = line.split('=', 1)` raises ValueError on a line without '='.
RECURSIVE MgrLoadEnvVars(_, _)
MgrLoadEnvVars(lines, env_vars) ==
    IF lines = <<>> THEN Loaded(env_vars)
    ELSE LET line == Strip(Head(lines))
         IN  IF line = "" \/ StartsWith(line, "#")
             THEN MgrLoadEnvVars(Tail(lines), env_vars)
             ELSE IF Len(SplitOnce(line, "=")) # 2
             THEN Raised("ValueError")
             ELSE MgrLoadEnvVars(Tail(lines),
                                 DictSet(env_vars, SplitOnce(line, "=")[1], SplitOnce(line, "=")[2]))

\* load_env_file of deploy_mcp.py: key and value are stripped; any exception
\* (the ValueError of a line without '=') ends the process with sys.exit(1).
RECURSIVE LoadEnvFile(_, _)
LoadEnvFile(lines, env_vars) ==
    IF lines = <<>> THEN Loaded(env_vars)
    ELSE LET line == Strip(Head(lines))
         IN  IF line = "" \/ StartsWith(line, "#")
             THEN LoadEnvFile(Tail(lines), env_vars)
             ELSE IF Len(SplitOnce(line, "=")) # 2
             THEN Raised("SystemExit")
             ELSE LoadEnvFile(Tail(lines),
                              DictSet(env_vars, Strip(SplitOnce(line, "=")[1]),
                                      Strip(SplitOnce(line, "=")[2])))

\* The characters of the keys, in the order of their code points.
CodePoints == " #-0123456789=ABCDEFGHIJKLMNOPQRSTUVWXYZ_abcdefghijklmnopqrstuvwxyz"

\* Python's a < b on strings: at the first place where they differ a has
\* ended, or has the character of the smaller code point.
CodeAt(a, i) == Find(SubSeq(a, i, i), CodePoints)

StrLess(a, b) ==
    \E i \in 1..Len(b) :
        /\ \A j \in 1..(i - 1) : j <= Len(a) /\ SubSeq(a, j, j) = SubSeq(b, j, j)
        /\ i > Len(a) \/ CodeAt(a, i) < CodeAt(b, i)

\* sorted(env_vars.items()): the keys of a dict are distinct, and the item
\* at place r is the one with r - 1 smaller keys.
SortedItems(d) ==
    LET Smaller(i) == {j \in 1..Len(d) : StrLess(d[j][1], d[i][1])}
    IN  [r \in 1..Len(d) |-> d[CHOOSE i \in 1..Len(d) : Cardinality(Smaller(i)) = r - 1]]

\* f.write(f"{key}={value}\n") for every item: the lines written.
EnvLinesOf(items) == [i \in 1..Len(items) |-> items[i][1] \o "=" \o items[i][2]]

\* A file opened with 'a': what is written comes after what was there.
AppendedFile(old, written) == old \o written

\* open(path, 'w'): the file holds what was written and nothing else.
WrittenFile(old, written) == written

-----------------------------------------------------------------------------
(* Port allocation *)

\* Stands for the RuntimeError find_free_port raises: no port number.
RuntimeError == -1

\* find_free_port(start_port, end_port): the first port of range(start, end)
\* nothing listens on; RuntimeError when there is none.
FindFreePort(start_port, end_port, occupied) ==
    LET free == {p \in start_port..(end_port - 1) : p \notin occupied}
    IN  IF free = {} THEN RuntimeError ELSE Min(free)

\* The manager's port_range_start: DEFAULT_PORT_RANGE_START.
PortRangeStart == 9000

\* The manager's port_range_end: the MCP_PORT_RANGE_END the session is run with.
PortRangeEnd == 9002

\* The ports something listens on, as a port scan may find them.
OccupiedChoices == { {}, {3000, 3200}, 8800..8899 }

\* check_network_requirements: hasattr(mcp_server_setup, 'load_env_vars') is
\* false, so the four default ranges are the ones scanned.
NetworkRanges == { <<3000, 3100>>, <<3100, 3200>>, <<3200, 3300>>, <<8800, 8900>> }

NetworkRequirementsMet(occupied) ==
    \A r \in NetworkRanges : FindFreePort(r[1], r[2], occupied) # RuntimeError

\* assign_dynamic_ports: the three scans, in the order the code makes them.
AssignedPorts(occupied) ==
    [n \in PortNames |->
        CASE n = "github"      -> FindFreePort(3000, 3100, occupied)
          [] n = "main"        -> FindFreePort(3200, 3300, occupied)
          [] n = "main_health" -> FindFreePort(8800, 8900, occupied)]

AssignFails(occupied) == \E n \in PortNames : AssignedPorts(occupied)[n] = RuntimeError

\* assign_dynamic_ports: the file after the three ranges were overwritten.
FileWithPorts(file, ps) ==
    [k \in DOMAIN file \cup RangeKeys |->
        IF k \in RangeKeys THEN <<ps[ServiceNameOfKey(k)], ps[ServiceNameOfKey(k)]>>
        ELSE file[k]]

\* f"{port}-{port}".
PortRangeText(port) == ToString(port) \o "-" \o ToString(port)

\* assign_dynamic_ports on the text of the file: read, scan, set the three
\* ranges, write the sorted items.  A scan that fails raises before the write.
WithPortRanges(env_vars, ps) ==
    DictSet(DictSet(DictSet(env_vars,
        "GITHUB_MCP_PORT_RANGE", PortRangeText(ps["github"])),
        "MAIN_MCP_PORT_RANGE", PortRangeText(ps["main"])),
        "MAIN_MCP_HEALTH_PORT_RANGE", PortRangeText(ps["main_health"]))

AssignDynamicPorts(lines, occupied) ==
    LET env_vars == LoadEnvVars(lines, <<>>).value
        ps == AssignedPorts(occupied)
    IN  IF AssignFails(occupied) THEN Raised("RuntimeError")
        ELSE Loaded(WrittenFile(lines, EnvLinesOf(SortedItems(WithPortRanges(env_vars, ps)))))

\* A scan that leaves out what other runs were assigned.
ReservedByOthers(assigned) == assigned

\* The ports a scan leaves out because another run was assigned them: none.
\* find_free_port closes its socket at once and records nothing.
Reserved(assigned) == {}

\* The keys update_mcp_env takes over from the main .env file.
SharedKeys == <<"GITHUB_OWNER", "GITHUB_REPO", "ANTHROPIC_API_KEY", "GITHUB_TOKEN">>

\* env_vars.get(key, mcp_env.get(key, "")).
SharedValue(env_vars, mcp_env, key) ==
    IF key \in DictKeys(env_vars) THEN DictGet(env_vars, key)
    ELSE IF key \in DictKeys(mcp_env) THEN DictGet(mcp_env, key)
    ELSE ""

\* update_mcp_env of deploy_mcp.py, with the file there: load, set the four
\* keys, write the items in the order of the dict.
RECURSIVE WithSharedKeys(_, _, _)
WithSharedKeys(mcp_env, env_vars, keys) ==
    IF keys = <<>> THEN mcp_env
    ELSE WithSharedKeys(DictSet(mcp_env, Head(keys), SharedValue(env_vars, mcp_env, Head(keys))),
                        env_vars, Tail(keys))

UpdateMcpEnv(lines, env_vars) ==
    LET loaded == LoadEnvFile(lines, <<>>)
    IN  IF loaded.raised # "none" THEN loaded
        ELSE Loaded(WrittenFile(lines,
                 EnvLinesOf(WithSharedKeys(loaded.value, env_vars, SharedKeys))))

\* The port ranges of a file copied from the template.
TemplateFile ==
    [k \in RangeKeys |->
        CASE k = "GITHUB_MCP_PORT_RANGE"      -> <<3000, 3100>>
          [] k = "MAIN_MCP_PORT_RANGE"        -> <<3200, 3300>>
          [] k = "MAIN_MCP_HEALTH_PORT_RANGE" -> <<8800, 8900>>]

-----------------------------------------------------------------------------
(* get_server_ports on the text of the file *)

\* Python's s.endswith(suffix).
EndsWith(s, suffix) ==
    Len(s) >= Len(suffix) /\ SubSeq(s, Len(s) - Len(suffix) + 1, Len(s)) = suffix

UpperCase == "ABCDEFGHIJKLMNOPQRSTUVWXYZ"
LowerCase == "abcdefghijklmnopqrstuvwxyz"

\* Python's s.lower().
RECURSIVE Lower(_)
Lower(s) ==
    IF s = "" THEN s
    ELSE LET i == Find(SubSeq(s, 1, 1), UpperCase)
         IN  (IF i = 0 THEN SubSeq(s, 1, 1) ELSE SubSeq(LowerCase, i, i))
                \o Lower(SubSeq(s, 2, Len(s)))

\* int(s) for a string of decimal digits.
RECURSIVE ParseInt(_)
ParseInt(s) ==
    IF s = "" THEN 0
    ELSE 10 * ParseInt(SubSeq(s, 1, Len(s) - 1))
            + (Find(SubSeq(s, Len(s), Len(s)), "0123456789") - 1)

\* get_server_ports: key.replace('_PORT_RANGE', '').lower(), and the four
\* names that are rewritten.
ServiceNameOf(key) ==
    LET service_name == Lower(ReplaceAll(key, "_PORT_RANGE", ""))
    IN  CASE service_name = "github_mcp"      -> "github"
          [] service_name = "main_mcp"        -> "main"
          [] service_name = "main_mcp_health" -> "main_health"
          [] OTHER                            -> service_name

\* get_server_ports: every key of the file that ends with _PORT_RANGE and
\* whose value holds a '-' gives an entry: the service name and the start of
\* the range.
PortEntries(env_vars) ==
    SelectSeq(env_vars, LAMBDA item : EndsWith(item[1], "_PORT_RANGE") /\ Contains("-", item[2]))

ServerPortsOf(env_vars) ==
    LET entries == PortEntries(env_vars)
        names   == {ServiceNameOf(entries[i][1]) : i \in 1..Len(entries)}
        Last(n) == CHOOSE i \in 1..Len(entries) :
                      /\ ServiceNameOf(entries[i][1]) = n
                      /\ \A j \in (i + 1)..Len(entries) : ServiceNameOf(entries[j][1]) # n
    IN  [n \in names |-> ParseInt(SplitOnce(entries[Last(n)][2], "-")[1])]

\* start_mcp_servers and then the first probes of comprehensive_health_check
\* on the file it left: the ports assigned, and the entries of the TCP and of
\* the HTTP layer, every port accepting and answering.
ProbedAfterStart(lines, occupied) ==
    LET saved == AssignDynamicPorts(lines, occupied)
        ports == ServerPortsOf(LoadEnvVars(saved.value, <<>>).value)
    IN  IF saved.raised # "none" THEN saved
        ELSE Loaded([assigned |-> AssignedPorts(occupied),
                     tcp  |-> CheckTcpConnectivity(ports, [n \in DOMAIN ports |-> TRUE]),
                     http |-> CheckHttpHealthEndpoints(ports, [n \in DOMAIN ports |-> 200],
                                                       [n \in DOMAIN ports |-> "{}"])])

\* generate_health_report called by itself: both sections of the report it
\* compiles from the listing, the ports of the file and what the probes get.
FullReport(a) ==
    LET cs   == IF a.ps.ok THEN ParseContainers(a.ps.lines) ELSE EmptyMap
        tcp  == CheckTcpConnectivity(a.ports, a.listening)
        http == CheckHttpHealthEndpoints(a.ports, StatusOf(a.response), BodyOf(a.response))
    IN  [servers |-> ReportServers(cs, tcp, http),
         overall |-> ReportOverall(cs, tcp, http, "ok")]

-----------------------------------------------------------------------------
(* State *)

VARIABLES
    cmd,            \* the command line: deploy | undeploy | redeploy | check | start | ...
    timeout,        \* --timeout
    dpc,            \* where the command is
    log,            \* the deployment log: <<step, status>> entries
    ret,            \* what deploy_mcp_servers returned: none | true | false
    uret,           \* what undeploy_mcp_servers returned: none | true | false
    exitCode,       \* the process exit status: none | 0 | 1
    now,            \* time.time(), seconds
    envExists,      \* .env.mcp exists
    envFile,        \* its *_PORT_RANGE entries: key -> <<start, end>>
    secretsExists,  \* the secrets directory exists
    templateExists, \* .env.mcp.template exists
    running,        \* the services docker-compose has brought up
    ups,            \* how many times `docker-compose up -d` was called
    downs,          \* how many times `docker-compose down` was called
    impl,           \* the wait loop running: none | monitor | setup
    start_time,     \* its start_time
    iter,           \* its poll iteration, counted from 1
    wpc,            \* where it is: idle | test | ports | l1 .. l4 | sleep | ret | done | blocked
    healthy,        \* its local `healthy`
    ports,          \* its ports dict
    containers,     \* layer 1 of this iteration: name -> [running, healthy, status]
    container_healthy,
    tcp_results,    \* layer 2 of this iteration: name -> [port, accessible]
    tcp_healthy,
    http_results,   \* layer 3 of this iteration: name -> [port, status_code, healthy]
    http_healthy,
    resources,      \* layer 4 of this iteration: none | ok | failed
    checked,        \* the layers run so far in this iteration
    wres,           \* what the wait returned: none | true | false
    http_failed,    \* history: layer 3 failed in an iteration of this wait
    auto_restart,   \* mcp/health_monitor.py --auto-restart
    single_check,   \* mcp/health_monitor.py --single-check
    hpc,            \* where the monitor is: idle | gateway | list | servers | sleep
    checks_performed,
    servers,        \* what get_running_servers returned in this pass
    sidx,           \* the server the loop of check_all is at
    hstatus,        \* the status dict check_all is building
    hlog,           \* the health log: one status per pass
    restarts,       \* name -> how many `docker restart` were issued in the run
    calls,          \* name -> the checks and restarts of the current pass
    running_servers,\* the manager's registry: its entries, in insertion order
    backend,        \* the server containers that are running: name -> port
    confExists,     \* gateway.conf exists
    gateway_conf,   \* its content
    mpc,            \* where the manager is: idle | waiting
    mcur,           \* the server start_server is starting
    mwaited,        \* time.time() - start_time of its health wait
    mprobes,        \* the health probes made so far by the start_server call in progress
    mops,           \* how many calls were made
    mlast,          \* the last call: [op, arg]
    mret,           \* what it returned: [kind, entries]
    reload,         \* the reload signal of the last call: none | delivered | failed
    args,           \* the arguments of the library function called by itself
    result,         \* <<>> before it returns, <<what it returned>> after
    report,         \* the health report written or printed last: [generated, overall, resources]
    rpc,            \* two starts at once, where each is: idle | read | scan | write | up | done
    run_env,        \* the env_vars each has read
    run_ports,      \* the ports each was assigned
    store,          \* the .env.mcp they share: its lines
    open_ports      \* the ports something listens on

cmdVars  == <<cmd, timeout>>
procVars == <<dpc, log, ret, uret, exitCode>>
fileVars == <<envExists, envFile, secretsExists, templateExists>>
backVars == <<running, ups, downs>>
waitVars == <<impl, start_time, iter, wpc, healthy, ports, containers, container_healthy,
              tcp_results, tcp_healthy, http_results, http_healthy, resources, checked, wres,
              http_failed>>
hmVars   == <<auto_restart, single_check, hpc, checks_performed, servers, sidx, hstatus,
              hlog, restarts, calls>>
mgrVars  == <<running_servers, backend, confExists, gateway_conf, mpc, mcur, mwaited,
              mprobes, mops, mlast, mret, reload>>
libVars  == <<args, result>>
repVars  == <<report>>
runVars  == <<rpc, run_env, run_ports, store, open_ports>>
sideVars == <<libVars, repVars, runVars>>
toolVars == <<hmVars, mgrVars, sideVars>>
vars     == <<cmd, timeout, dpc, log, ret, uret, exitCode, now, envExists, envFile,
              secretsExists, templateExists, running, ups, downs, impl, start_time, iter, wpc,
              healthy, ports, containers, container_healthy, tcp_results, tcp_healthy,
              http_results, http_healthy, resources, checked, wres, http_failed,
              auto_restart, single_check, hpc, checks_performed, servers, sidx, hstatus,
              hlog, restarts, calls, running_servers, backend, confExists, gateway_conf,
              mpc, mcur, mwaited, mprobes, mops, mlast, mret, reload, args, result,
              report, rpc, run_env, run_ports, store, open_ports>>

Commands == {"deploy", "undeploy", "redeploy", "check", "start"}

\* mcp_health_monitor.py report.
ReportCommands == {"report"}

\* No report generated yet.
NoReport ==
    [generated |-> FALSE,
     overall   |-> [healthy |-> FALSE, containers_healthy |-> FALSE,
                    tcp_accessible |-> FALSE, http_healthy |-> FALSE],
     resources |-> "none"]

\* The other scripts: mcp/health_monitor.py, and a session of calls of
\* mcp/mcp_manager.py's MCPServerManager.
ToolCommands == {"monitor", "manager"}

\* The gateway configuration the manager starts from: it holds the opening
\* line of the upstream block and the placeholder of the server count, the
\* two texts _update_gateway_config replaces.
GatewayTemplate == "upstream mcp_servers {\n}\nreturn 200 '$MCP_SERVER_COUNT';\n"

\* No call made yet / nothing returned yet.
NoCall == [op |-> "none", arg |-> ""]
NoReturn == [kind |-> "none", entries |-> <<>>]
NoServer == [name |-> "", port |-> 0]

\* The gateway container and the containers named mcp_server_<model>.
GatewayName == "mcp_gateway"
MonServers == <<"mcp_server_a">>
MonNames == {GatewayName} \cup {MonServers[i] : i \in 1..Len(MonServers)}

\* No check and no restart made.
NoCalls ==
    [n \in MonNames |-> [checks |-> 0, restarts |-> 0, first |-> "none", after |-> "none"]]

\* The status dict before the gateway was checked.
NoStatus == [gateway |-> [healthy |-> FALSE, restarted |-> FALSE], servers |-> <<>>]

Timeouts == {0, MaxTimeout}

\* The functions of the scripts that are also called by themselves.
LibraryCalls ==
    {"find_free_port", "load_env_vars", "save_env", "http_probe", "probed_ports",
     "health_report"}

\* The lines an environment file is made of here: blank, comment, entries
\* (one key twice, blanks around the line or around the '=', a value with
\* '='), and a line without '='.
EnvLineChoices == {"", "# ports", "A=1", "A=2", " B=1 ", "C = x=y", "MAIN_MCP_PORT_RANGE"}

\* The longest environment file read.
MaxLines == 2

EnvFiles == UNION {[1..n -> EnvLineChoices] : n \in 0..MaxLines}

\* The three loaders of the environment file.
Loaders == {"monitor", "setup", "manager"}

\* What the main .env file gives update_mcp_env.
MainEnvChoices == { <<>>, <<<<"GITHUB_OWNER", "me">>, <<"GITHUB_TOKEN", "t=1">>>> }

\* The two functions that save the environment file, and what they are run
\* with: the file, and the occupied ports / the main .env.
SaveInputs ==
    {[impl |-> "assign_dynamic_ports", lines |-> f, with |-> o] :
        f \in EnvFiles, o \in OccupiedChoices}
    \cup {[impl |-> "update_mcp_env", lines |-> f, with |-> e] :
              f \in EnvFiles, e \in MainEnvChoices}

\* The ports a scan called by itself is followed over: the first MaxScan + 1
\* ports from find_free_port's default start_port.
ScanBase == 3000
MaxScan == 2
ScanPorts == ScanBase..(ScanBase + MaxScan)

\* find_free_port(start_port, end_port) of mcp_server_setup.py with any range
\* of ScanPorts, and MCPServerManager.find_free_port with the range of the
\* manager, with anything listening.
FindFreePortInputs ==
    {[impl |-> "setup", start |-> a, end |-> b, occupied |-> o] :
        a \in ScanPorts, b \in ScanPorts, o \in SUBSET ScanPorts}
    \cup {[impl |-> "manager", start |-> PortRangeStart, end |-> PortRangeEnd, occupied |-> o] :
              o \in SUBSET (PortRangeStart..PortRangeEnd)}

\* One probe of the HTTP layer, by check_http_health_endpoints (requests) or
\* by check_server_health (curl), of a port whose endpoint answers with a
\* status and a body, or not at all.
HttpProbeInputs ==
    {[impl |-> i, port |-> q, answer |-> a, body |-> b] :
        i \in {"monitor", "setup"}, q \in ScanPorts, a \in HttpAnswers \cup {204, 404},
        b \in Bodies}

\* Two invocations of `mcp_server_setup.py start` running at once in one
\* checkout: each is start_mcp_servers from assign_dynamic_ports on.
ConcurrentCommands == {"two_starts"}

Runs == {1, 2}

\* The .env.mcp the two runs find.
StoreChoices == { <<>>, <<"A=1">> }

\* The port ranges an environment file may hold before a deployment: those
\* check_network_requirements looks up, at their defaults.
RangeLineChoices ==
    {"GITHUB_MCP_PORT_RANGE=3000-3100", "CODE_ANALYSIS_PORT_RANGE=3100-3200",
     "MAIN_MCP_PORT_RANGE=3200-3300"}

RangeFiles == UNION {[1..n -> RangeLineChoices] : n \in 0..MaxLines}

\* generate_health_report: what `docker ps` prints (or its failure), the
\* ports get_server_ports finds (none without the file, or those of the
\* template), what listens and what the endpoints answer.
ReportInputs ==
    LET listings == {[ok |-> FALSE, lines |-> {}]} \cup {[ok |-> TRUE, lines |-> L] : L \in PsListings}
        answers  == {r \in HttpResponses : r.body = "{}" \/ r.status = 500}
    IN  UNION { {[ps |-> l, ports |-> p, listening |-> t, response |-> h] :
                    l \in listings, t \in [DOMAIN p -> BOOLEAN], h \in [DOMAIN p -> answers]}
                : p \in {EmptyMap, GetServerPorts(TemplateFile)} }

\* What a library function is called with.
InputsOf(c) ==
    CASE c = "find_free_port" -> {a \in FindFreePortInputs : a.start <= a.end}
      [] c = "load_env_vars" -> {[impl |-> i, lines |-> f] : i \in Loaders, f \in EnvFiles}
      [] c = "save_env" -> SaveInputs
      [] c = "http_probe" -> HttpProbeInputs
      [] c = "health_report" -> ReportInputs
      [] c = "probed_ports" ->
            {[lines |-> f, occupied |-> o] : f \in RangeFiles, o \in OccupiedChoices}
      [] OTHER -> {<<>>}

Init ==
    /\ cmd \in Commands \cup ReportCommands \cup ToolCommands \cup LibraryCalls
               \cup ConcurrentCommands
    /\ timeout \in Timeouts
    /\ dpc = "main"
    /\ log = <<>>
    /\ ret = "none"
    /\ uret = "none"
    /\ exitCode = "none"
    /\ now = 0
    /\ envExists \in BOOLEAN
    /\ envFile = IF envExists THEN TemplateFile ELSE EmptyMap
    /\ secretsExists \in BOOLEAN
    /\ templateExists \in BOOLEAN
    /\ (envExists => templateExists)
    /\ running \in {{}, Services}
    /\ ups = 0
    /\ downs = 0
    /\ impl = "none"
    /\ start_time = 0
    /\ iter = 0
    /\ wpc = "idle"
    /\ healthy = FALSE
    /\ ports = EmptyMap
    /\ containers = EmptyMap
    /\ container_healthy = FALSE
    /\ tcp_results = EmptyMap
    /\ tcp_healthy = FALSE
    /\ http_results = EmptyMap
    /\ http_healthy = FALSE
    /\ resources = "none"
    /\ checked = {}
    /\ wres = "none"
    /\ http_failed = FALSE
    /\ cmd \in ToolCommands \cup LibraryCalls \cup ConcurrentCommands
          => timeout = 0 /\ ~envExists /\ ~secretsExists /\ ~templateExists /\ running = {}
    /\ auto_restart \in BOOLEAN
    /\ single_check \in BOOLEAN
    /\ cmd # "monitor" => ~auto_restart /\ ~single_check
    /\ hpc = "idle"
    /\ checks_performed = 0
    /\ servers = <<>>
    /\ sidx = 1
    /\ hstatus = NoStatus
    /\ hlog = <<>>
    /\ restarts = [n \in MonNames |-> 0]
    /\ calls = NoCalls
    /\ running_servers = <<>>
    /\ backend = EmptyMap
    /\ confExists \in BOOLEAN
    /\ cmd # "manager" => confExists
    /\ gateway_conf = IF confExists THEN GatewayTemplate ELSE ""
    /\ mpc = "idle"
    /\ mcur = NoServer
    /\ mwaited = 0
    /\ mprobes = 0
    /\ mops = 0
    /\ mlast = NoCall
    /\ mret = NoReturn
    /\ reload = "none"
    /\ args \in InputsOf(cmd)
    /\ result = <<>>
    /\ report = NoReport
    /\ rpc = [p \in Runs |-> IF cmd \in ConcurrentCommands THEN "read" ELSE "idle"]
    /\ run_env = [p \in Runs |-> <<>>]
    /\ run_ports = [p \in Runs |-> EmptyMap]
    /\ store \in (IF cmd \in ConcurrentCommands THEN StoreChoices ELSE {<<>>})
    /\ open_ports \in (IF cmd \in ConcurrentCommands THEN OccupiedChoices ELSE {{}})

-----------------------------------------------------------------------------
(* The health wait loops: comprehensive_health_check (mcp_health_monitor.py,  *)
(* impl = "monitor") and check_server_health (mcp_server_setup.py, "setup").  *)
(* Each action is one blocking call of the loop body.  The results of an      *)
(* iteration are dead at the top of the loop (each is assigned before it is   *)
(* read again) and are dropped there; the verdict flags stay as they were.    *)

\* The listings docker can print now: only launched containers can be listed.
PsOutcomes ==
    {[ok |-> FALSE, lines |-> {}]} \cup
    {[ok |-> TRUE, lines |-> L] : L \in
        {M \in PsListings : \A l \in M : SplitOnce(l, ": ")[1] \in {ContainerOf(s) : s \in running}}}

\* A loop whose layers do not gate: it falls through whatever the verdict.
NextStageUngated(passed, next) == next

\* `if not <layer passed>: time.sleep(5); continue`, else fall through.
NextStage(passed, next) == IF passed THEN next ELSE "sleep"

\* A loop that resumes at the TCP layer instead of starting over.
IterationResumes(i) == "l2"

\* The first call of the loop body.
IterationStart(i) == IF i = "monitor" THEN "ports" ELSE "l1"

\* A call of a wait loop: the locals before the first test of the loop.
WaitBegin(i, p) ==
    /\ impl' = i
    /\ start_time' = now
    /\ iter' = 0
    /\ wpc' = "test"
    /\ healthy' = FALSE
    /\ ports' = p
    /\ containers' = EmptyMap
    /\ container_healthy' = FALSE
    /\ tcp_results' = EmptyMap
    /\ tcp_healthy' = FALSE
    /\ http_results' = EmptyMap
    /\ http_healthy' = FALSE
    /\ resources' = "none"
    /\ checked' = {}
    /\ wres' = "none"
    /\ http_failed' = FALSE

\* while time.time() - start_time < timeout
WaitTest ==
    /\ wpc = "test"
    /\ IF now - start_time < timeout
       THEN /\ iter' = iter + 1
            /\ wpc' = IterationStart(impl)
            /\ checked' = {}
            /\ containers' = EmptyMap
            /\ tcp_results' = EmptyMap
            /\ http_results' = EmptyMap
            /\ resources' = "none"
       ELSE /\ wpc' = "ret"
            /\ UNCHANGED <<iter, checked, containers, tcp_results, http_results, resources>>
    /\ UNCHANGED <<impl, start_time, http_failed, healthy, ports, container_healthy, tcp_healthy,
                   http_healthy, wres>>
    /\ UNCHANGED <<cmdVars, toolVars, procVars, fileVars, backVars, now>>

\* ports = get_server_ports(); an empty dict backs off.
WaitGetPorts ==
    /\ wpc = "ports"
    /\ ports' = IF envExists THEN GetServerPorts(envFile) ELSE EmptyMap
    /\ wpc' = NextStage(DOMAIN ports' # {}, "l1")
    /\ UNCHANGED <<impl, start_time, http_failed, iter, healthy, containers, container_healthy,
                   tcp_results, tcp_healthy, http_results, http_healthy, resources,
                   checked, wres>>
    /\ UNCHANGED <<cmdVars, toolVars, procVars, fileVars, backVars, now>>

\* Layer 1 of comprehensive_health_check: check_container_status, then all(...).
MonitorLayer1(ps) ==
    /\ containers' = IF ps.ok THEN ParseContainers(ps.lines) ELSE EmptyMap
    /\ IF DOMAIN containers' = {}
       THEN /\ wpc' = "sleep"
            /\ UNCHANGED container_healthy
       ELSE /\ container_healthy' = MonitorContainersHealthy(containers')
            /\ wpc' = NextStage(container_healthy', "l2")

\* Layer 1 of check_server_health: docker ps, then all("healthy" in status ...);
\* a CalledProcessError goes to the handler at the end of the loop body.
SetupLayer1(ps) ==
    /\ containers' = IF ps.ok THEN ParseContainers(ps.lines) ELSE EmptyMap
    /\ IF ~ps.ok
       THEN /\ wpc' = "sleep"
            /\ UNCHANGED container_healthy
       ELSE /\ container_healthy' = SetupContainersHealthy(ps.lines)
            /\ wpc' = NextStage(container_healthy', "l2")

WaitLayer1 ==
    /\ wpc = "l1"
    /\ checked' = checked \cup {1}
    /\ \E ps \in PsOutcomes :
          IF impl = "monitor" THEN MonitorLayer1(ps) ELSE SetupLayer1(ps)
    /\ UNCHANGED <<impl, start_time, http_failed, iter, healthy, ports, tcp_results, tcp_healthy,
                   http_results, http_healthy, resources, wres>>
    /\ UNCHANGED <<cmdVars, toolVars, procVars, fileVars, backVars, now>>

\* check_tcp_connectivity: every port but main_health is probed.
MonitorLayer2(listening) ==
    tcp_results' = CheckTcpConnectivity(ports, listening)

\* Layer 2 of check_server_health: the loop breaks at the first refused port.
SetupLayer2(listening) ==
    LET order  == Visited(ports, {"main_health"})
        passes == [n \in DOMAIN ports |-> ConnectEx(listening[n]) = 0]
    IN  tcp_results' = [n \in ProbedUntilFailure(order, passes) |->
                           [port |-> ports[n], accessible |-> passes[n]]]

WaitLayer2 ==
    /\ wpc = "l2"
    /\ checked' = checked \cup {2}
    /\ \E listening \in [DOMAIN ports -> BOOLEAN] :
          IF impl = "monitor" THEN MonitorLayer2(listening) ELSE SetupLayer2(listening)
    /\ tcp_healthy' = \A n \in DOMAIN tcp_results' : tcp_results'[n].accessible
    /\ wpc' = NextStage(tcp_healthy', "l3")
    /\ UNCHANGED <<impl, start_time, http_failed, iter, healthy, ports, containers,
                   container_healthy,
                   http_results, http_healthy, resources, wres>>
    /\ UNCHANGED <<cmdVars, toolVars, procVars, fileVars, backVars, now>>

\* check_http_health_endpoints: every entry of ports is probed.
MonitorLayer3(answer, body) ==
    http_results' = CheckHttpHealthEndpoints(ports, answer, body)

\* Layer 3 of check_server_health: main_health is skipped, the loop breaks at
\* the first failure.
SetupLayer3(answer) ==
    LET order  == Visited(ports, {"main_health"})
        passes == [n \in DOMAIN ports |-> SetupHttpEntry(CheckPort(ports, n), answer[n]).healthy]
    IN  http_results' = [n \in ProbedUntilFailure(order, passes) |->
                            SetupHttpEntry(CheckPort(ports, n), answer[n])]

WaitLayer3 ==
    /\ wpc = "l3"
    /\ checked' = checked \cup {3}
    /\ IF impl = "monitor"
       THEN \E response \in [DOMAIN ports -> HttpResponses] :
               MonitorLayer3(StatusOf(response), BodyOf(response))
       ELSE \E answer \in [DOMAIN ports -> HttpAnswers] : SetupLayer3(answer)
    /\ http_healthy' = \A n \in DOMAIN http_results' : http_results'[n].healthy
    /\ wpc' = NextStage(http_healthy', "l4")
    /\ http_failed' = (http_failed \/ ~http_healthy')
    /\ UNCHANGED <<impl, start_time, iter, healthy, ports, containers, container_healthy,
                   tcp_results, tcp_healthy, resources, wres>>
    /\ UNCHANGED <<cmdVars, toolVars, procVars, fileVars, backVars, now>>

\* A wait in which an earlier failure of layer 3 sticks: it cannot succeed.
MonitorLayer4Sticky(statsOk) ==
    IF http_failed
    THEN /\ wpc' = "sleep"
         /\ UNCHANGED healthy
    ELSE /\ healthy' = TRUE
         /\ wpc' = "ret"

\* Layer 4 of comprehensive_health_check: check_resource_usage returns {} on a
\* failing `docker stats`; healthy = True; break.
MonitorLayer4(statsOk) ==
    /\ healthy' = TRUE
    /\ wpc' = "ret"

\* Layer 4 of check_server_health: healthy = True; break is inside the try, a
\* failing `docker stats` sleeps and continues.
SetupLayer4(statsOk) ==
    IF statsOk
    THEN /\ healthy' = TRUE
         /\ wpc' = "ret"
    ELSE /\ wpc' = "sleep"
         /\ UNCHANGED healthy

WaitLayer4 ==
    /\ wpc = "l4"
    /\ checked' = checked \cup {4}
    /\ \E statsOk \in BOOLEAN :
          /\ resources' = IF statsOk THEN "ok" ELSE "failed"
          /\ IF impl = "monitor" THEN MonitorLayer4(statsOk) ELSE SetupLayer4(statsOk)
    /\ UNCHANGED <<impl, start_time, http_failed, iter, ports, containers, container_healthy,
                   tcp_results, tcp_healthy, http_results, http_healthy, wres>>
    /\ UNCHANGED <<cmdVars, toolVars, procVars, fileVars, backVars, now>>

\* The calls of an iteration that are made without a timeout: the
\* subprocess.run of `docker ps` and of `docker stats`, and that of `curl -s`
\* in check_server_health.  socket.settimeout(2) and requests.get(timeout=5)
\* bound the others.
UnboundedCalls(i) == IF i = "monitor" THEN {"l1", "l4"} ELSE {"l1", "l3", "l4"}

\* subprocess.run without timeout= waits for the child however long it runs:
\* when the child never exits, the call never returns and the loop stays there.
WaitBlocks ==
    /\ wpc \in UnboundedCalls(impl)
    /\ wpc' = "blocked"
    /\ UNCHANGED <<impl, start_time, http_failed, iter, healthy, ports, containers,
                   container_healthy, tcp_results, tcp_healthy, http_results, http_healthy,
                   resources, checked, wres>>
    /\ UNCHANGED <<cmdVars, toolVars, procVars, fileVars, backVars, now>>

\* time.sleep(5), then back to the test of the loop.
WaitSleep ==
    /\ wpc = "sleep"
    /\ now' = now + PollInterval
    /\ wpc' = "test"
    /\ UNCHANGED <<impl, start_time, http_failed, iter, healthy, ports, containers,
                   container_healthy, tcp_results, tcp_healthy, http_results, http_healthy,
                   resources, checked, wres>>
    /\ UNCHANGED <<cmdVars, toolVars, procVars, fileVars, backVars>>

\* A wait that raises on a timeout instead of returning False.
WaitResultRaises(h) == IF h THEN "true" ELSE "HealthTimeoutError"

\* if healthy: return True / else: return False
WaitResult(h) == IF h THEN "true" ELSE "false"

WaitReturn ==
    /\ wpc = "ret"
    /\ wres' = WaitResult(healthy)
    /\ wpc' = "done"
    /\ UNCHANGED <<impl, start_time, http_failed, iter, healthy, ports, containers,
                   container_healthy,
                   tcp_results, tcp_healthy, http_results, http_healthy, resources, checked>>
    /\ UNCHANGED <<cmdVars, toolVars, procVars, fileVars, backVars, now>>

-----------------------------------------------------------------------------
(* The commands: mcp_deploy.py deploy | undeploy | redeploy,                  *)
(* mcp_health_monitor.py check, mcp_server_setup.py start                     *)

\* log_deployment_step appends one entry.
Logged(l, step, status) == Append(l, <<step, status>>)

\* sys.exit(code), or an exception nobody catches (status 1).
Exit(code) ==
    /\ dpc' = "exit"
    /\ exitCode' = code

\* deploy_mcp_servers returns success; main exits 0 if success else 1.
DeployReturns(success) ==
    /\ ret' = (IF success THEN "true" ELSE "false")
    /\ Exit(IF success THEN "0" ELSE "1")

\* main(): the dispatch on args.action.
Main ==
    /\ dpc = "main"
    /\ \/ /\ cmd = "deploy"
          /\ dpc' = "deploy_init"
          /\ UNCHANGED waitVars
       \/ /\ cmd \in {"undeploy", "redeploy"}
          /\ dpc' = "undeploy"
          /\ UNCHANGED waitVars
       \/ /\ cmd = "check"
          /\ dpc' = "check_wait"
          /\ WaitBegin("monitor", EmptyMap)
       \/ /\ cmd = "start"
          /\ dpc' = "setup_start"
          /\ UNCHANGED waitVars
    /\ UNCHANGED <<cmdVars, toolVars, log, ret, uret, exitCode, fileVars, backVars, now>>

\* Step 1: setup_logging_directory, Deployment STARTED.
DeployInit ==
    /\ dpc = "deploy_init"
    /\ log' = Logged(log, "Deployment", "STARTED")
    /\ dpc' = "docker_check"
    /\ UNCHANGED <<cmdVars, toolVars, ret, uret, exitCode, fileVars, backVars, waitVars, now>>

\* A deploy that logs the failed Docker check and goes on.
DockerCheckIgnored ==
    /\ dpc = "docker_check"
    /\ \E dockerOk \in BOOLEAN :
          log' = Logged(log, "Docker check", IF dockerOk THEN "SUCCESS" ELSE "FAILED")
    /\ dpc' = "network_check"
    /\ UNCHANGED <<cmdVars, toolVars, ret, uret, exitCode, fileVars, backVars, waitVars, now>>

\* Step 2: check_docker_installation.
DockerCheck ==
    /\ dpc = "docker_check"
    /\ \E dockerOk \in BOOLEAN :
          IF dockerOk
          THEN /\ log' = Logged(log, "Docker check", "SUCCESS")
               /\ dpc' = "network_check"
               /\ UNCHANGED <<ret, exitCode>>
          ELSE /\ log' = Logged(Logged(log, "Docker check", "FAILED"), "Deployment", "FAILED")
               /\ DeployReturns(FALSE)
    /\ UNCHANGED <<cmdVars, toolVars, uret, fileVars, backVars, waitVars, now>>

\* Step 3: check_network_requirements.
NetworkCheck ==
    /\ dpc = "network_check"
    /\ \E occupied \in OccupiedChoices :
          IF NetworkRequirementsMet(occupied)
          THEN /\ log' = Logged(log, "Network check", "SUCCESS")
               /\ dpc' = "env_setup"
               /\ UNCHANGED <<ret, exitCode>>
          ELSE /\ log' = Logged(Logged(log, "Network check", "FAILED"), "Deployment", "FAILED")
               /\ DeployReturns(FALSE)
    /\ UNCHANGED <<cmdVars, toolVars, uret, fileVars, backVars, waitVars, now>>

\* A step 4 that stops at the first item that is missing: the secrets
\* directory is not looked at when the environment file had to be created.
EnvironmentSetupFirstOnly ==
    /\ dpc = "env_setup"
    /\ IF ~envExists /\ ~templateExists
       THEN /\ log' = Logged(log, "Environment setup", "STARTED")
            /\ Exit("1")
            /\ UNCHANGED <<ret, fileVars>>
       ELSE /\ envExists' = TRUE
            /\ envFile' = IF envExists THEN envFile ELSE TemplateFile
            /\ secretsExists' = IF envExists THEN TRUE ELSE secretsExists
            /\ UNCHANGED templateExists
            /\ IF envExists /\ secretsExists
               THEN /\ log' = Logged(Logged(log, "Environment setup", "STARTED"),
                                     "Environment setup", "SUCCESS")
                    /\ dpc' = "startup"
                    /\ UNCHANGED <<ret, exitCode>>
               ELSE /\ log' = Logged(Logged(log, "Environment setup", "STARTED"),
                                     "Environment setup", "INCOMPLETE")
                    /\ DeployReturns(FALSE)
    /\ UNCHANGED <<cmdVars, toolVars, uret, backVars, waitVars, now>>

\* Step 4: setup_environment and setup_secrets.  setup_environment copies the
\* template and returns False when the file is missing, and calls sys.exit(1)
\* when the template is missing too; setup_secrets creates the directory and
\* returns False when it is missing.
EnvironmentSetup ==
    /\ dpc = "env_setup"
    /\ IF ~envExists /\ ~templateExists
       THEN /\ log' = Logged(log, "Environment setup", "STARTED")
            /\ Exit("1")
            /\ UNCHANGED <<ret, fileVars>>
       ELSE /\ envExists' = TRUE
            /\ envFile' = IF envExists THEN envFile ELSE TemplateFile
            /\ secretsExists' = TRUE
            /\ UNCHANGED templateExists
            /\ IF envExists /\ secretsExists
               THEN /\ log' = Logged(Logged(log, "Environment setup", "STARTED"),
                                     "Environment setup", "SUCCESS")
                    /\ dpc' = "startup"
                    /\ UNCHANGED <<ret, exitCode>>
               ELSE /\ log' = Logged(Logged(log, "Environment setup", "STARTED"),
                                     "Environment setup", "INCOMPLETE")
                    /\ DeployReturns(FALSE)
    /\ UNCHANGED <<cmdVars, toolVars, uret, backVars, waitVars, now>>

\* What `docker-compose up -d` / `down` can do: succeed, exit non-zero
\* (CalledProcessError), or not be there at all (FileNotFoundError).
ComposeOutcomes == {"ok", "CalledProcessError", "FileNotFoundError"}

\* Step 5: start_mcp_servers = assign_dynamic_ports, then docker-compose up -d.
\* A RuntimeError of the scan and a FileNotFoundError reach deploy's handler;
\* on a CalledProcessError start_mcp_servers calls sys.exit(1).
ServerStartup ==
    /\ dpc = "startup"
    /\ \E occupied \in OccupiedChoices, up \in ComposeOutcomes, part \in SUBSET Services :
          IF AssignFails(occupied)
          THEN /\ log' = Logged(Logged(log, "Server startup", "STARTED"),
                                "Server startup", "FAILED")
               /\ DeployReturns(FALSE)
               /\ UNCHANGED <<fileVars, backVars, waitVars>>
          ELSE /\ envExists' = TRUE
               /\ envFile' = FileWithPorts(envFile, AssignedPorts(occupied))
               /\ UNCHANGED <<secretsExists, templateExists, downs>>
               /\ ups' = ups + 1
               /\ CASE up = "ok" ->
                         /\ running' = Services
                         /\ log' = Logged(Logged(log, "Server startup", "STARTED"),
                                          "Server startup", "SUCCESS")
                         /\ dpc' = "health"
                         /\ UNCHANGED <<ret, exitCode, waitVars>>
                    [] up = "CalledProcessError" ->
                         /\ running' = running \cup part
                         /\ log' = Logged(log, "Server startup", "STARTED")
                         /\ Exit("1")
                         /\ UNCHANGED <<ret, waitVars>>
                    [] up = "FileNotFoundError" ->
                         /\ part = {}
                         /\ UNCHANGED running
                         /\ log' = Logged(Logged(log, "Server startup", "STARTED"),
                                          "Server startup", "FAILED")
                         /\ DeployReturns(FALSE)
                         /\ UNCHANGED waitVars
    /\ UNCHANGED <<cmdVars, toolVars, uret, now>>

\* Step 6: Health check STARTED, then comprehensive_health_check(timeout).
HealthCheckStart ==
    /\ dpc = "health"
    /\ log' = Logged(log, "Health check", "STARTED")
    /\ dpc' = "health_wait"
    /\ WaitBegin("monitor", EmptyMap)
    /\ UNCHANGED <<cmdVars, toolVars, ret, uret, exitCode, fileVars, backVars, now>>

\* A deploy that stops the servers when the health check fails.
HealthCheckEndTearsDown ==
    /\ dpc = "health_wait"
    /\ wpc = "done"
    /\ IF wres = "true"
       THEN /\ log' = Logged(log, "Health check", "SUCCESS")
            /\ dpc' = "report"
            /\ UNCHANGED <<ret, exitCode, backVars>>
       ELSE /\ log' = Logged(log, "Health check", "FAILED")
            /\ running' = {}
            /\ downs' = downs + 1
            /\ UNCHANGED ups
            /\ DeployReturns(FALSE)
    /\ UNCHANGED <<cmdVars, toolVars, uret, fileVars, waitVars, now>>

\* Step 6, after the wait returned: SUCCESS and on, or FAILED and return False.
HealthCheckEnd ==
    /\ dpc = "health_wait"
    /\ wpc = "done"
    /\ IF wres = "true"
       THEN /\ log' = Logged(log, "Health check", "SUCCESS")
            /\ dpc' = "report"
            /\ UNCHANGED <<ret, exitCode>>
       ELSE /\ log' = Logged(log, "Health check", "FAILED")
            /\ DeployReturns(FALSE)
    /\ UNCHANGED <<cmdVars, toolVars, uret, fileVars, backVars, waitVars, now>>

\* A deploy that skips the report and logs nothing for it.
HealthReportSkipped ==
    /\ dpc = "report"
    /\ dpc' = "complete"
    /\ UNCHANGED <<cmdVars, toolVars, log, ret, uret, exitCode, fileVars, backVars, waitVars, now>>

\* A deploy that a failure of the report fails: FAILED, return False.
HealthReportAborts ==
    /\ dpc = "report"
    /\ log' = Logged(Logged(log, "Health report", "STARTED"), "Health report", "FAILED")
    /\ DeployReturns(FALSE)
    /\ UNCHANGED <<cmdVars, toolVars, uret, fileVars, backVars, waitVars, now>>

\* The probes generate_health_report makes: the ports of the file as it is,
\* and what the backend answers now.
ReportsNow ==
    LET ps == IF envExists THEN GetServerPorts(envFile) ELSE EmptyMap
        \* check_container_status: {} on a failing `docker ps`
        status == {IF docker_ps.ok THEN ContainersOf[docker_ps.lines] ELSE EmptyMap :
                     docker_ps \in PsOutcomes}
        tcps   == {CheckTcpConnectivity(ps, listening) : listening \in [DOMAIN ps -> BOOLEAN]}
        https  == {CheckHttpHealthEndpoints(ps, StatusOf(response), BodyOf(response)) :
                     response \in [DOMAIN ps -> HttpResponses]}
        \* check_resource_usage: {} on a failing `docker stats`
        usage  == {"ok", "failed"}
    IN  {GenerateHealthReport(cs, tcp, http, res) :
            cs \in status, tcp \in tcps, http \in https, res \in usage}

\* Step 7: generate_health_report and the write of the report file.  An
\* exception on the way is logged as FAILED, no report is left, and the
\* deployment continues.
HealthReport ==
    /\ dpc = "report"
    /\ \/ /\ UNCHANGED report
          /\ log' = Logged(Logged(log, "Health report", "STARTED"), "Health report", "FAILED")
       \/ /\ report' \in ReportsNow
          /\ log' = Logged(Logged(log, "Health report", "STARTED"), "Health report", "SUCCESS")
    /\ dpc' = "complete"
    /\ UNCHANGED <<cmdVars, hmVars, mgrVars, libVars, runVars, ret, uret, exitCode, fileVars,
                   backVars, waitVars, now>>

\* Step 8: Deployment COMPLETED, return True.
DeployComplete ==
    /\ dpc = "complete"
    /\ log' = Logged(log, "Deployment", "COMPLETED")
    /\ DeployReturns(TRUE)
    /\ UNCHANGED <<cmdVars, toolVars, uret, fileVars, backVars, waitVars, now>>

\* time.sleep(5) of redeploy, between undeploy and deploy.
SettleDelay == 5

\* undeploy_mcp_servers: Undeployment STARTED, stop_mcp_servers, then SUCCESS
\* and True, or (on an Exception) FAILED and False.  On a CalledProcessError
\* stop_mcp_servers itself calls sys.exit(1), which is no Exception.
Undeploy ==
    /\ dpc = "undeploy"
    /\ \E down \in ComposeOutcomes, part \in SUBSET running :
          CASE down = "ok" ->
                  /\ part = {}
                  /\ running' = {}
                  /\ downs' = downs + 1
                  /\ log' = Logged(Logged(log, "Undeployment", "STARTED"),
                                   "Undeployment", "SUCCESS")
                  /\ uret' = "true"
                  /\ IF cmd = "redeploy"
                     THEN dpc' = "settle" /\ UNCHANGED exitCode
                     ELSE Exit("0")
            [] down = "CalledProcessError" ->
                  /\ running' = running \ part
                  /\ downs' = downs + 1
                  /\ log' = Logged(log, "Undeployment", "STARTED")
                  /\ Exit("1")
                  /\ UNCHANGED uret
            [] down = "FileNotFoundError" ->
                  /\ part = {}
                  /\ UNCHANGED running
                  /\ downs' = downs + 1
                  /\ log' = Logged(Logged(log, "Undeployment", "STARTED"),
                                   "Undeployment", "FAILED")
                  /\ uret' = "false"
                  /\ IF cmd = "redeploy"
                     THEN dpc' = "settle" /\ UNCHANGED exitCode
                     ELSE Exit("1")
    /\ UNCHANGED <<cmdVars, toolVars, ret, fileVars, waitVars, now, ups>>

\* redeploy: time.sleep(5), then deploy_mcp_servers.
Settle ==
    /\ dpc = "settle"
    /\ now' = now + SettleDelay
    /\ dpc' = "deploy_init"
    /\ UNCHANGED <<cmdVars, toolVars, log, ret, uret, exitCode, fileVars, backVars, waitVars>>

\* mcp_health_monitor.py check: sys.exit(0 if healthy else 1).
CheckEnd ==
    /\ dpc = "check_wait"
    /\ wpc = "done"
    /\ Exit(IF wres = "true" THEN "0" ELSE "1")
    /\ UNCHANGED <<cmdVars, toolVars, log, ret, uret, fileVars, backVars, waitVars, now>>

\* mcp_health_monitor.py report: generate_health_report, printed or written
\* to --output; main returns.
ReportCommand ==
    /\ dpc = "main" /\ cmd \in ReportCommands
    /\ report' \in ReportsNow
    /\ Exit("0")
    /\ UNCHANGED <<cmdVars, hmVars, mgrVars, libVars, runVars, log, ret, uret, fileVars, backVars,
                   waitVars, now>>

\* mcp_server_setup.py start: exit 1 without the environment file; else
\* start_mcp_servers (nothing catches its errors here) and check_server_health.
SetupStart ==
    /\ dpc = "setup_start"
    /\ IF ~envExists
       THEN /\ Exit("1")
            /\ UNCHANGED <<fileVars, backVars, waitVars>>
       ELSE \E occupied \in OccupiedChoices, up \in ComposeOutcomes :
               IF AssignFails(occupied)
               THEN /\ Exit("1")
                    /\ UNCHANGED <<fileVars, backVars, waitVars>>
               ELSE /\ envFile' = FileWithPorts(envFile, AssignedPorts(occupied))
                    /\ UNCHANGED <<envExists, secretsExists, templateExists, downs>>
                    /\ ups' = ups + 1
                    /\ IF up = "ok"
                       THEN /\ running' = Services
                            /\ dpc' = "start_wait"
                            /\ WaitBegin("setup", AssignedPorts(occupied))
                            /\ UNCHANGED exitCode
                       ELSE /\ Exit("1")
                            /\ UNCHANGED <<running, waitVars>>
    /\ UNCHANGED <<cmdVars, toolVars, log, ret, uret, now>>

\* mcp_server_setup.py start prints the verdict; the process ends with status 0.
SetupEnd ==
    /\ dpc = "start_wait"
    /\ wpc = "done"
    /\ Exit("0")
    /\ UNCHANGED <<cmdVars, toolVars, log, ret, uret, fileVars, backVars, waitVars, now>>

-----------------------------------------------------------------------------
(* mcp/health_monitor.py: MCPHealthMonitor.check_all and monitor.  One pass   *)
(* of check_all checks the gateway, lists the running servers and checks each *)
(* of them, then appends the status to the health log.                        *)

\* The passes a monitor run is followed for (monitor itself never stops).
MaxCycles == 2

\* DEFAULT_CHECK_INTERVAL, seconds.
CheckInterval == 60

\* What `docker inspect` tells of a listed container: State.Status and
\* State.Health.Status.
ServerRecords(n) ==
    {[name |-> n, status |-> "running", health |-> h] : h \in {"healthy", "unhealthy"}}

\* What get_running_servers can return: the listed containers, in order.
ServerListings == {<<>>} \cup {<<r>> : r \in ServerRecords(MonServers[1])}

\* check_gateway_health: `curl -s -f <gateway>/health` exits 0.
GatewayHealthy(answer) == CurlExit(TRUE, answer) = 0

\* MCPHealthMonitor.check_server_health(server): the container status and the
\* Docker health status are read from the server dict, then the endpoint is
\* probed with `curl -s -f`.
ServerHealthy(server, answer) ==
    /\ server.status = "running"
    /\ server.health = "healthy"
    /\ CurlExit(TRUE, answer) = 0

\* A pass that restarts whatever it finds unhealthy, flag or no flag.
RestartsIgnoringFlag(is_healthy, auto) == IF is_healthy THEN 0 ELSE 1

\* `if not healthy and auto_restart: self.restart_service(name)`.
RestartsIssued(is_healthy, auto) == IF ~is_healthy /\ auto THEN 1 ELSE 0

\* The calls check_all makes for one service: the check, and on a restart the
\* restart and the re-check; and whether the service itself was healthy at
\* the re-check (container running, backend-healthy, endpoint answering).
CallsFor(first_healthy, n_restarts, recovered) ==
    [checks   |-> 1 + n_restarts,
     restarts |-> n_restarts,
     first    |-> IF first_healthy THEN "healthy" ELSE "unhealthy",
     after    |-> IF n_restarts = 0 THEN "none"
                  ELSE IF recovered THEN "recovered" ELSE "not_recovered"]

\* main() of mcp/health_monitor.py: the first pass of check_all begins.
HmMain ==
    /\ dpc = "main"
    /\ cmd = "monitor"
    /\ dpc' = "hm"
    /\ hpc' = "gateway"
    /\ UNCHANGED <<auto_restart, single_check, checks_performed, servers, sidx, hstatus,
                   hlog, restarts, calls>>
    /\ UNCHANGED <<cmdVars, mgrVars, sideVars, log, ret, uret, exitCode, fileVars, backVars, waitVars, now>>

\* check_all, the gateway: check, and with auto_restart on an unhealthy
\* gateway restart it and check again.
HmCheckGateway ==
    /\ dpc = "hm"
    /\ hpc = "gateway"
    /\ \E first \in HttpAnswers, again \in HttpAnswers :
          LET h1 == GatewayHealthy(first)
              r  == RestartsIssued(h1, auto_restart)
          IN  /\ hstatus' = [gateway |-> [healthy   |-> IF r > 0 THEN GatewayHealthy(again) ELSE h1,
                                         restarted |-> r > 0],
                            servers |-> <<>>]
              /\ restarts' = [restarts EXCEPT ![GatewayName] = @ + r]
              /\ calls' = [NoCalls EXCEPT ![GatewayName] = CallsFor(h1, r, GatewayHealthy(again))]
              /\ (r = 0 => again = first)
    /\ hpc' = "list"
    /\ UNCHANGED <<auto_restart, single_check, checks_performed, servers, sidx, hlog>>
    /\ UNCHANGED <<cmdVars, mgrVars, sideVars, procVars, fileVars, backVars, waitVars, now>>

\* check_all: servers = self.get_running_servers().
HmGetRunningServers ==
    /\ dpc = "hm"
    /\ hpc = "list"
    /\ servers' \in ServerListings
    /\ sidx' = 1
    /\ hpc' = "servers"
    /\ UNCHANGED <<auto_restart, single_check, checks_performed, hstatus, hlog, restarts, calls>>
    /\ UNCHANGED <<cmdVars, mgrVars, sideVars, procVars, fileVars, backVars, waitVars, now>>

\* check_all, one round of `for server in servers`: check, and with
\* auto_restart on an unhealthy server restart it and check again, with the
\* same server dict; `after` is what the container is after the restart.
HmCheckServer ==
    /\ dpc = "hm"
    /\ hpc = "servers"
    /\ sidx <= Len(servers)
    /\ \E first \in HttpAnswers, again \in HttpAnswers,
          after \in ServerRecords(servers[sidx].name) :
          LET server == servers[sidx]
              h1 == ServerHealthy(server, first)
              r  == RestartsIssued(h1, auto_restart)
          IN  /\ hstatus' = [hstatus EXCEPT !.servers =
                               Append(@, [name      |-> server.name,
                                          healthy   |-> IF r > 0
                                                        THEN ServerHealthy(server, again)
                                                        ELSE h1,
                                          restarted |-> r > 0])]
              /\ restarts' = [restarts EXCEPT ![server.name] = @ + r]
              /\ calls' = [calls EXCEPT ![server.name] =
                                CallsFor(h1, r, ServerHealthy(after, again))]
              /\ (r = 0 => again = first /\ after = server)
    /\ sidx' = sidx + 1
    /\ UNCHANGED <<auto_restart, single_check, hpc, checks_performed, servers, hlog>>
    /\ UNCHANGED <<cmdVars, mgrVars, sideVars, procVars, fileVars, backVars, waitVars, now>>

\* check_all after the loop: log_health_status(status) and return, which ends
\* the pass and its locals.  With --single-check main prints the status and
\* ends; monitor prints it, counts the pass (count is None: it never stops by
\* itself) and goes to sleep.
HmLogStatus ==
    /\ dpc = "hm"
    /\ hpc = "servers"
    /\ sidx > Len(servers)
    /\ hlog' = Append(hlog, hstatus)
    /\ hstatus' = NoStatus
    /\ servers' = <<>>
    /\ sidx' = 1
    /\ calls' = NoCalls
    /\ IF single_check
       THEN /\ Exit("0")
            /\ hpc' = "idle"
            /\ UNCHANGED checks_performed
       ELSE /\ checks_performed' = checks_performed + 1
            /\ hpc' = "sleep"
            /\ UNCHANGED <<dpc, exitCode>>
    /\ UNCHANGED <<auto_restart, single_check, restarts>>
    /\ UNCHANGED <<cmdVars, mgrVars, sideVars, log, ret, uret, fileVars, backVars, waitVars, now>>

\* monitor: time.sleep(interval), then the next pass.
HmSleep ==
    /\ dpc = "hm"
    /\ hpc = "sleep"
    /\ checks_performed < MaxCycles
    /\ now' = now + CheckInterval
    /\ hpc' = "gateway"
    /\ UNCHANGED <<auto_restart, single_check, checks_performed, servers, sidx, hstatus,
                   hlog, restarts, calls>>
    /\ UNCHANGED <<cmdVars, mgrVars, sideVars, procVars, fileVars, backVars, waitVars>>

\* monitor: KeyboardInterrupt during the sleep ends the run.
HmInterrupt ==
    /\ dpc = "hm"
    /\ hpc = "sleep"
    /\ Exit("0")
    /\ hpc' = "idle"
    /\ UNCHANGED <<auto_restart, single_check, checks_performed, servers, sidx, hstatus,
                   hlog, restarts, calls>>
    /\ UNCHANGED <<cmdVars, mgrVars, sideVars, log, ret, uret, fileVars, backVars, waitVars, now>>

-----------------------------------------------------------------------------
(* mcp/mcp_manager.py: MCPServerManager.  A session is a sequence of calls on *)
(* a manager; a new invocation of the script makes a new manager.  The        *)
(* registry is the dict running_servers of the manager at hand.               *)

\* The calls a session is followed for.
MaxOps == 3

Models == {"a", "b"}

\* server_name = f"mcp_server_{model_name}".
ServerName(m) == "mcp_server_" \o m

\* MCPServerManager.find_free_port: the first port of
\* range(port_range_start, port_range_end + 1) that refuses the connection.
MgrFindFreePort(occupied) ==
    LET free == {q \in PortRangeStart..PortRangeEnd : q \notin occupied}
    IN  IF free = {} THEN RuntimeError ELSE Min(free)

\* The ports that accept a connection, as a scan may find them: those of the
\* running containers, maybe the first of the range too, or all of the range.
MgrOccupiedChoices ==
    LET used == {backend[n] : n \in DOMAIN backend}
    IN  {used, used \cup {PortRangeStart}, PortRangeStart..PortRangeEnd}

\* _wait_for_server_health: timeout = 60, time.sleep(2).
HealthWaitTimeout == 60
HealthWaitSleep == 2

RegistryNames(reg) == {reg[i].name : i \in 1..Len(reg)}

\* A manager that never finds a server in its registry.
NeverRunning(name, reg) == FALSE

\* `server_name in self.running_servers`.
AlreadyRunning(name, reg) == name \in RegistryNames(reg)

\* self.running_servers[server_name].
EntryFor(name, reg) == reg[CHOOSE i \in 1..Len(reg) : reg[i].name = name]

\* del self.running_servers[server_name].
Without(reg, name) == SelectSeq(reg, LAMBDA e : e.name # name)

\* The `server name:port;` lines of the registry, in its order.
RECURSIVE UpstreamLines(_)
UpstreamLines(reg) ==
    IF reg = <<>> THEN ""
    ELSE "    server " \o Head(reg).name \o ":" \o ToString(Head(reg).port) \o ";\n"
            \o UpstreamLines(Tail(reg))

\* What _update_gateway_config writes, given what it read.
Regenerate(config, reg) ==
    ReplaceAll(ReplaceAll(config, "upstream mcp_servers {",
                          "upstream mcp_servers {\n" \o UpstreamLines(reg) \o "}"),
               "$MCP_SERVER_COUNT", ToString(Len(reg)))

\* A call is made / returns.
Called(op, arg) == mops' = mops + 1 /\ mlast' = [op |-> op, arg |-> arg]
Returns(kind, entries) == mret' = [kind |-> kind, entries |-> entries]

\* main() of mcp_manager.py: manager = MCPServerManager().
MgrMain ==
    /\ dpc = "main"
    /\ cmd = "manager"
    /\ dpc' = "mgr"
    /\ UNCHANGED mgrVars
    /\ UNCHANGED <<cmdVars, hmVars, sideVars, log, ret, uret, exitCode, fileVars, backVars, waitVars, now>>

\* A later invocation of the script, or another caller: MCPServerManager(),
\* whose registry is empty.
MgrNewInstance ==
    /\ dpc = "mgr" /\ mpc = "idle" /\ mops < MaxOps
    /\ Called("new", "")
    /\ running_servers' = <<>>
    /\ mret' = NoReturn
    /\ reload' = "none"
    /\ UNCHANGED <<backend, confExists, gateway_conf, mpc, mcur, mwaited, mprobes>>
    /\ UNCHANGED <<cmdVars, hmVars, sideVars, procVars, fileVars, backVars, waitVars, now>>

\* What `docker exec mcp_gateway nginx -s reload` can give: exit status 0,
\* or not 0 (the gateway container is not running, nginx refuses).
ReloadOutcomes == {"delivered", "failed"}

\* A regeneration run with check=True: a reload that fails raises.
AfterReloadChecked(outcome, kind, entries) ==
    IF outcome = "failed" THEN Returns("CalledProcessError", <<>>)
    ELSE Returns(kind, entries)

\* subprocess.run(..., check=False): the exit status is not looked at.
AfterReload(outcome, kind, entries) == Returns(kind, entries)

\* _update_gateway_config: nothing with an empty registry; else read the
\* file (FileNotFoundError when it is not there), replace, write, and signal
\* the reload.
UpdateGatewayConfig(reg, kind, entries) ==
    IF reg = <<>>
    THEN Returns(kind, entries) /\ reload' = "none" /\ UNCHANGED <<confExists, gateway_conf>>
    ELSE IF ~confExists
    THEN /\ Returns("FileNotFoundError", <<>>)
         /\ reload' = "none"
         /\ UNCHANGED <<confExists, gateway_conf>>
    ELSE /\ gateway_conf' = Regenerate(gateway_conf, reg)
         /\ \E outcome \in ReloadOutcomes :
               /\ reload' = outcome
               /\ AfterReload(outcome, kind, entries)
         /\ UNCHANGED confExists

\* start_server up to the health wait: the registry test, the port scan and
\* the launch of the container.
MgrStartServer ==
    /\ dpc = "mgr" /\ mpc = "idle" /\ mops < MaxOps
    /\ \E m \in Models, occupied \in MgrOccupiedChoices, launched \in BOOLEAN :
          LET name == ServerName(m)
              port == MgrFindFreePort(occupied)
          IN  /\ Called("start_server", m)
              /\ IF AlreadyRunning(name, running_servers)
                 THEN /\ Returns("entry", <<EntryFor(name, running_servers)>>)
                      /\ UNCHANGED <<backend, mpc, mcur>>
                 ELSE IF port = RuntimeError
                 THEN /\ Returns("RuntimeError", <<>>)
                      /\ UNCHANGED <<backend, mpc, mcur>>
                 ELSE IF ~launched
                 THEN /\ Returns("None", <<>>)
                      /\ UNCHANGED <<backend, mpc, mcur>>
                 ELSE /\ backend' = [n \in DOMAIN backend \cup {name} |->
                                        IF n = name THEN port ELSE backend[n]]
                      /\ mpc' = "waiting"
                      /\ mcur' = [name |-> name, port |-> port]
                      /\ mret' = NoReturn
    /\ mprobes' = 0
    /\ reload' = "none"
    /\ UNCHANGED <<running_servers, confExists, gateway_conf, mwaited>>
    /\ UNCHANGED <<cmdVars, hmVars, sideVars, procVars, fileVars, backVars, waitVars, now>>

\* A start_server that registers the server whether the wait passed or not.
MgrWaitProbeRegistersAnyway ==
    /\ dpc = "mgr" /\ mpc = "waiting"
    /\ IF mwaited < HealthWaitTimeout
       THEN \E is_healthy \in BOOLEAN :
               /\ is_healthy => mcur.name \in DOMAIN backend
               /\ IF is_healthy
                  THEN /\ running_servers' = Append(running_servers, mcur)
                       /\ UpdateGatewayConfig(Append(running_servers, mcur), "entry", <<mcur>>)
                       /\ mpc' = "idle"
                       /\ mcur' = NoServer
                       /\ mwaited' = 0
                       /\ mprobes' = 0
                  ELSE /\ mwaited' = mwaited + HealthWaitSleep
                       /\ mprobes' = mprobes + 1
                       /\ UNCHANGED <<running_servers, confExists, gateway_conf, mpc, mcur,
                                      mret, reload>>
       ELSE /\ Returns("None", <<>>)
            /\ running_servers' = Append(running_servers, mcur)
            /\ mpc' = "idle"
            /\ mcur' = NoServer
            /\ mwaited' = 0
            /\ mprobes' = 0
            /\ UNCHANGED <<confExists, gateway_conf, reload>>
    /\ UNCHANGED <<backend, mops, mlast>>
    /\ UNCHANGED <<cmdVars, hmVars, sideVars, procVars, fileVars, backVars, waitVars, now>>

\* start_server, one round of _wait_for_server_health and what follows it:
\* on "healthy" the server is registered and the gateway configuration
\* updated; at the timeout stop_server is called, which finds no entry in the
\* registry and returns False, and start_server returns None.
MgrWaitProbe ==
    /\ dpc = "mgr" /\ mpc = "waiting"
    /\ IF mwaited < HealthWaitTimeout
       THEN \E is_healthy \in BOOLEAN :
               /\ is_healthy => mcur.name \in DOMAIN backend
               /\ IF is_healthy
                  THEN /\ running_servers' = Append(running_servers, mcur)
                       /\ UpdateGatewayConfig(Append(running_servers, mcur), "entry", <<mcur>>)
                       /\ mpc' = "idle"
                       /\ mcur' = NoServer
                       /\ mwaited' = 0
                       /\ mprobes' = 0
                  ELSE /\ mwaited' = mwaited + HealthWaitSleep
                       /\ mprobes' = mprobes + 1
                       /\ UNCHANGED <<running_servers, confExists, gateway_conf, mpc, mcur,
                                      mret, reload>>
       ELSE /\ Returns("None", <<>>)
            /\ mpc' = "idle"
            /\ mcur' = NoServer
            /\ mwaited' = 0
            /\ mprobes' = 0
            /\ UNCHANGED <<running_servers, confExists, gateway_conf, reload>>
    /\ UNCHANGED <<backend, mops, mlast>>
    /\ UNCHANGED <<cmdVars, hmVars, sideVars, procVars, fileVars, backVars, waitVars, now>>

\* What the subprocess.run of stop_server can give.  Its list of arguments
\* goes with shell=True: where the shell is /bin/sh only `docker` is run, with
\* no argument, and no container is stopped ("not_run", exit status 0, or
\* "failed" when it is not 0); where the list is joined into one command
\* line, `docker stop X && docker rm X` runs and ends with 0 ("terminated")
\* or not ("failed").
StopOutcomes == {"terminated", "not_run", "failed"}

\* stop_server: False without an entry of the registry; else the stop
\* command, and on exit status 0 the entry is deleted and the gateway
\* configuration updated.
MgrStopServer ==
    /\ dpc = "mgr" /\ mpc = "idle" /\ mops < MaxOps
    /\ \E m \in Models, outcome \in StopOutcomes :
          LET name == ServerName(m)
          IN  /\ Called("stop_server", m)
              /\ IF ~AlreadyRunning(name, running_servers)
                 THEN /\ Returns("false", <<>>)
                      /\ reload' = "none"
                      /\ UNCHANGED <<running_servers, backend, confExists, gateway_conf>>
                 ELSE IF outcome = "failed"
                 THEN /\ Returns("false", <<>>)
                      /\ reload' = "none"
                      /\ UNCHANGED <<running_servers, backend, confExists, gateway_conf>>
                 ELSE /\ backend' = IF outcome = "terminated"
                                    THEN [n \in DOMAIN backend \ {name} |-> backend[n]]
                                    ELSE backend
                      /\ running_servers' = Without(running_servers, name)
                      /\ UpdateGatewayConfig(Without(running_servers, name), "true", <<>>)
    /\ UNCHANGED <<mpc, mcur, mwaited, mprobes>>
    /\ UNCHANGED <<cmdVars, hmVars, sideVars, procVars, fileVars, backVars, waitVars, now>>

\* stop_all: `docker compose down`; on exit status 0 the registry is emptied.
MgrStopAll ==
    /\ dpc = "mgr" /\ mpc = "idle" /\ mops < MaxOps
    /\ Called("stop_all", "")
    /\ \E down_ok \in BOOLEAN :
          IF down_ok
          THEN /\ backend' = EmptyMap
               /\ running_servers' = <<>>
               /\ Returns("true", <<>>)
          ELSE /\ Returns("false", <<>>)
               /\ UNCHANGED <<backend, running_servers>>
    /\ reload' = "none"
    /\ UNCHANGED <<confExists, gateway_conf, mpc, mcur, mwaited, mprobes>>
    /\ UNCHANGED <<cmdVars, hmVars, sideVars, procVars, fileVars, backVars, waitVars, now>>

\* list_servers: list(self.running_servers.values()).
MgrListServers ==
    /\ dpc = "mgr" /\ mpc = "idle" /\ mops < MaxOps
    /\ Called("list", "")
    /\ Returns("list", running_servers)
    /\ reload' = "none"
    /\ UNCHANGED <<running_servers, backend, confExists, gateway_conf, mpc, mcur, mwaited,
                   mprobes>>
    /\ UNCHANGED <<cmdVars, hmVars, sideVars, procVars, fileVars, backVars, waitVars, now>>

\* A call of _update_gateway_config by itself: a regeneration with the
\* registry as it is.
MgrRegenerate ==
    /\ dpc = "mgr" /\ mpc = "idle" /\ mops < MaxOps
    /\ Called("regenerate", "")
    /\ UpdateGatewayConfig(running_servers, "none", <<>>)
    /\ UNCHANGED <<running_servers, backend, mpc, mcur, mwaited, mprobes>>
    /\ UNCHANGED <<cmdVars, hmVars, sideVars, procVars, fileVars, backVars, waitVars, now>>

\* A container stops outside the manager (it crashes, or somebody stops it).
MgrContainerStops ==
    /\ dpc = "mgr"
    /\ \E name \in DOMAIN backend :
          backend' = [n \in DOMAIN backend \ {name} |-> backend[n]]
    /\ UNCHANGED <<running_servers, confExists, gateway_conf, mpc, mcur, mwaited, mprobes,
                   mops, mlast, mret, reload>>
    /\ UNCHANGED <<cmdVars, hmVars, sideVars, procVars, fileVars, backVars, waitVars, now>>

-----------------------------------------------------------------------------
(* The library functions called by themselves, on the arguments of Init *)

\* The function returned v (or raised it).
Returned(v) ==
    /\ result' = <<v>>
    /\ dpc' = "returned"
    /\ UNCHANGED args
    /\ UNCHANGED <<cmdVars, hmVars, mgrVars, repVars, runVars, log, ret, uret, exitCode, fileVars,
                   backVars,
                   waitVars, now>>

\* find_free_port of mcp_server_setup.py / of the manager.
CallFindFreePort ==
    /\ dpc = "main" /\ cmd = "find_free_port"
    /\ Returned(IF args.impl = "setup"
                THEN FindFreePort(args.start, args.end, args.occupied)
                ELSE MgrFindFreePort(args.occupied))

\* load_env_vars / the head of assign_dynamic_ports / _load_env_vars, on a
\* file that exists.
CallLoadEnvVars ==
    /\ dpc = "main" /\ cmd = "load_env_vars"
    /\ Returned(IF args.impl = "manager"
                THEN MgrLoadEnvVars(args.lines, <<>>)
                ELSE LoadEnvVars(args.lines, <<>>))

\* One save of the environment file by the function of args.
SaveEnv(a, lines) ==
    IF a.impl = "assign_dynamic_ports" THEN AssignDynamicPorts(lines, a.with)
    ELSE UpdateMcpEnv(lines, a.with)

\* assign_dynamic_ports / update_mcp_env: the file it leaves.
CallSaveEnv ==
    /\ dpc = "main" /\ cmd = "save_env"
    /\ Returned(SaveEnv(args, args.lines))

\* The HTTP probe of one port: the entry of the result.
CallHttpProbe ==
    /\ dpc = "main" /\ cmd = "http_probe"
    /\ Returned(IF args.impl = "monitor"
                THEN MonitorHttpProbe(args.port, args.answer, args.body)
                ELSE SetupHttpEntry(args.port, args.answer))

\* The allocation of a deploy run and the ports its verification probes.
CallProbedPorts ==
    /\ dpc = "main" /\ cmd = "probed_ports"
    /\ Returned(ProbedAfterStart(args.lines, args.occupied))

\* generate_health_report: the report it returns.
CallHealthReport ==
    /\ dpc = "main" /\ cmd = "health_report"
    /\ Returned(FullReport(args))

-----------------------------------------------------------------------------
(* Two runs of start_mcp_servers at once.  Each action is one blocking step *)
(* of one run: the read of .env.mcp, the three scans, the write of the      *)
(* file, `docker-compose up -d`.  Nothing in the code orders the steps of   *)
(* one run against those of the other.                                      *)

\* The ports the other runs were assigned.
AssignedToOthers(p) ==
    UNION {{run_ports[q][n] : n \in DOMAIN run_ports[q]} : q \in Runs \ {p}}

RunFrame ==
    UNCHANGED <<cmdVars, hmVars, mgrVars, libVars, repVars, procVars, fileVars, backVars,
                waitVars, now>>

\* assign_dynamic_ports, the read: env_vars from the lines of the file.
RunRead(p) ==
    /\ rpc[p] = "read"
    /\ run_env' = [run_env EXCEPT ![p] = LoadEnvVars(store, <<>>).value]
    /\ rpc' = [rpc EXCEPT ![p] = "scan"]
    /\ UNCHANGED <<run_ports, store, open_ports>>
    /\ RunFrame

\* assign_dynamic_ports, the three find_free_port calls: a port is free when
\* nothing answers the connect now; RuntimeError ends the run.
RunScan(p) ==
    /\ rpc[p] = "scan"
    /\ LET occupied == open_ports \cup Reserved(AssignedToOthers(p))
       IN  IF AssignFails(occupied)
           THEN /\ rpc' = [rpc EXCEPT ![p] = "raised"]
                /\ UNCHANGED run_ports
           ELSE /\ rpc' = [rpc EXCEPT ![p] = "write"]
                /\ run_ports' = [run_ports EXCEPT ![p] = AssignedPorts(occupied)]
    /\ UNCHANGED <<run_env, store, open_ports>>
    /\ RunFrame

\* assign_dynamic_ports, the write: the env_vars read before, with the three
\* ranges set, replace the file.
RunWrite(p) ==
    /\ rpc[p] = "write"
    /\ store' = WrittenFile(store,
                   EnvLinesOf(SortedItems(WithPortRanges(run_env[p], run_ports[p]))))
    /\ rpc' = [rpc EXCEPT ![p] = "up"]
    /\ UNCHANGED <<run_env, run_ports, open_ports>>
    /\ RunFrame

\* start_mcp_servers: `docker-compose up -d` publishes the ports, or fails
\* and the run exits with 1.
RunUp(p) ==
    /\ rpc[p] = "up"
    /\ \E ok \in BOOLEAN :
          IF ok
          THEN /\ open_ports' = open_ports \cup {run_ports[p][n] : n \in PortNames}
               /\ rpc' = [rpc EXCEPT ![p] = "done"]
          ELSE /\ rpc' = [rpc EXCEPT ![p] = "exit1"]
               /\ UNCHANGED open_ports
    /\ UNCHANGED <<run_env, run_ports, store>>
    /\ RunFrame

Next ==
    \/ Main
    \/ DeployInit
    \/ DockerCheck
    \/ NetworkCheck
    \/ EnvironmentSetup
    \/ ServerStartup
    \/ HealthCheckStart
    \/ HealthCheckEnd
    \/ HealthReport
    \/ DeployComplete
    \/ Undeploy
    \/ Settle
    \/ CheckEnd
    \/ ReportCommand
    \/ SetupStart
    \/ SetupEnd
    \/ WaitTest
    \/ WaitGetPorts
    \/ WaitLayer1
    \/ WaitLayer2
    \/ WaitLayer3
    \/ WaitLayer4
    \/ WaitBlocks
    \/ WaitSleep
    \/ WaitReturn
    \/ HmMain
    \/ HmCheckGateway
    \/ HmGetRunningServers
    \/ HmCheckServer
    \/ HmLogStatus
    \/ HmSleep
    \/ HmInterrupt
    \/ MgrMain
    \/ MgrNewInstance
    \/ MgrStartServer
    \/ MgrWaitProbe
    \/ MgrStopServer
    \/ MgrStopAll
    \/ MgrListServers
    \/ MgrRegenerate
    \/ MgrContainerStops
    \/ CallFindFreePort
    \/ CallLoadEnvVars
    \/ CallSaveEnv
    \/ CallHttpProbe
    \/ CallProbedPorts
    \/ CallHealthReport
    \/ \E p \in Runs : RunRead(p)
    \/ \E p \in Runs : RunScan(p)
    \/ \E p \in Runs : RunWrite(p)
    \/ \E p \in Runs : RunUp(p)

Spec == Init /\ [][Next]_vars

\* The steps of the commands of mcp_deploy.py and of `mcp_server_setup.py
\* start`, and of the wait loops they run.
ScriptInit == Init /\ cmd \in Commands

ScriptNext ==
    \/ Main
    \/ DeployInit
    \/ DockerCheck
    \/ NetworkCheck
    \/ EnvironmentSetup
    \/ ServerStartup
    \/ HealthCheckStart
    \/ HealthCheckEnd
    \/ HealthReport
    \/ DeployComplete
    \/ Undeploy
    \/ Settle
    \/ CheckEnd
    \/ SetupStart
    \/ SetupEnd
    \/ WaitTest
    \/ WaitGetPorts
    \/ WaitLayer1
    \/ WaitLayer2
    \/ WaitLayer3
    \/ WaitLayer4
    \/ WaitBlocks
    \/ WaitSleep
    \/ WaitReturn

\* Every command runs to completion on the invoking thread: each call of the
\* script returns or times out, so a step that can be taken is taken.
FairSpec == ScriptInit /\ [][ScriptNext]_vars /\ WF_vars(ScriptNext)

-----------------------------------------------------------------------------
(* The health wait: layer order, verdict, back-off (C1 - C7) *)

\* A layer passed in the current iteration: it was run and judged passed.
Layer1Judged == 1 \in checked /\ \A c \in DOMAIN containers : containers[c].healthy
Layer2Judged == 2 \in checked /\ \A n \in DOMAIN tcp_results : tcp_results[n].accessible
Layer3Judged == 3 \in checked /\ \A n \in DOMAIN http_results : http_results[n].healthy

ServiceSet == DOMAIN ports \ {"main_health"}

\* 2xx.
SuccessStatus(code) == 200 <= code /\ code <= 299

\* The layers as the backend answered for service s in this iteration.
Layer1Passed(s) ==
    /\ ContainerOf(s) \in DOMAIN containers
    /\ BackendReportsHealthy(containers[ContainerOf(s)].status)
Layer2Passed(s) == s \in DOMAIN tcp_results /\ tcp_results[s].accessible
Layer3Passed(s) == s \in DOMAIN http_results /\ SuccessStatus(http_results[s].status_code)

\* C2: the wait returns success only when, in the iteration it returns from,
\* the container of every service of the set was reported running and healthy,
\* its port accepted the TCP connection and its health path answered 2xx.
C2_SuccessMeansAllLayersPassed ==
    wres = "true" => \A s \in ServiceSet : Layer1Passed(s) /\ Layer2Passed(s) /\ Layer3Passed(s)

\* C3: a layer whose check fails sends the loop to the sleep without a later
\* layer being run; the sleep lasts the poll interval and leads to the test of
\* the loop; a new iteration starts with no layer run and before layer 1; and
\* a layer is entered only from the check of the layer before it, so no
\* verdict of an earlier iteration lets a layer be skipped.  (A query of the
\* backend that never returns gives no verdict: the loop is neither failing
\* nor backing off then.)
C3_FailureBacksOffAndRestarts ==
    [][ /\ (wpc = "l1" /\ wpc' # "blocked"
                 /\ ~(\A c \in DOMAIN containers' : containers'[c].healthy))
              => wpc' = "sleep" /\ checked' = checked \cup {1}
        /\ (wpc = "l2" /\ ~tcp_healthy') => wpc' = "sleep" /\ checked' = checked \cup {2}
        /\ (wpc = "l3" /\ wpc' # "blocked" /\ ~http_healthy')
              => wpc' = "sleep" /\ checked' = checked \cup {3}
        /\ wpc = "sleep" => wpc' = "test" /\ now' = now + PollInterval
        /\ (wpc = "test" /\ wpc' # "ret") => checked' = {} /\ wpc' \in {"ports", "l1"}
        /\ wpc = "ports" => wpc' \in {"l1", "sleep"}
        /\ (wpc' = "l2" /\ wpc # "l2") => wpc = "l1"
        /\ (wpc' = "l3" /\ wpc # "l3") => wpc = "l2"
        /\ (wpc' = "l4" /\ wpc # "l4") => wpc = "l3"
      ]_vars

\* The second iteration at layer 1 again, after the first one passed layers 1
\* and 2 and failed layer 3.
C3_Witness ==
    iter = 2 /\ wpc = "l1" /\ container_healthy /\ tcp_healthy /\ ~http_healthy

\* An iteration in which every gating layer was judged passed.
GatingLayersJudged == Layer1Judged /\ Layer2Judged /\ Layer3Judged

\* C4 as stated: when the wait ends without such an iteration it raises
\* HealthTimeoutError.
C4_TimeoutRaises ==
    (wpc = "done" /\ ~GatingLayersJudged) => wres = "HealthTimeoutError"

\* C4 as the code has it: when the wait ends without such an iteration, the
\* timeout has elapsed and the wait returns False; nothing is raised.
C4_TimeoutReturnsFalse ==
    (wpc = "done" /\ ~GatingLayersJudged)
        => wres = "false" /\ now - start_time >= timeout

\* A wait that polled twice, never passed layer 1, and ended.
C4_Witness == wpc = "done" /\ iter = 2 /\ checked = {1} /\ timeout > 0

\* C5: layer 4 is sampled only after layers 1-3 passed in the iteration, and
\* once it is sampled the wait succeeds whatever the resource query gave.
C5_Layer4NeverGates ==
    4 \in checked => GatingLayersJudged /\ healthy

\* C6: a container passes layer 1 only if the backend reports it running and
\* healthy.
C6_Layer1NeedsBackendHealthy ==
    \A c \in DOMAIN containers :
        containers[c].healthy =>
            containers[c].running /\ BackendReportsHealthy(containers[c].status)

\* C7: a service passes layer 3 only if its health path answered with a
\* success status; another status, or no response, gives false.
C7_Layer3NeedsSuccessStatus ==
    \A n \in DOMAIN http_results :
        http_results[n].healthy <=> SuccessStatus(http_results[n].status_code)

-----------------------------------------------------------------------------
(* The deploy run: step order, failure handling, redeploy (C8 - C10) *)

InLog(step, status) == \E k \in 1..Len(log) : log[k] = <<step, status>>

\* The steps of a deploy run before its completion, in order.
StepNames == <<"Docker check", "Network check", "Environment setup", "Server startup",
               "Health check", "Health report">>

Attempted(i)    == \E k \in 1..Len(log) : log[k][1] = StepNames[i]
Succeeded(i)    == InLog(StepNames[i], "SUCCESS")
FirstEntry(i)   == Min({k \in 1..Len(log) : log[k][1] = StepNames[i]})
SuccessEntry(i) == Min({k \in 1..Len(log) : log[k] = <<StepNames[i], "SUCCESS">>})
Completed       == InLog("Deployment", "COMPLETED")

\* A step is attempted only after every earlier step succeeded, and the
\* servers are started only after the three steps before the start succeeded.
StepsInOrder ==
    /\ \A i, j \in 1..Len(StepNames) :
          (i < j /\ Attempted(j)) => Succeeded(i) /\ SuccessEntry(i) < FirstEntry(j)
    /\ (cmd \in {"deploy", "redeploy"} /\ ups > 0) => \A i \in 1..3 : Succeeded(i)

\* A failed precondition ends the run as FAILED: no later step, no server start.
PreconditionFailureEndsRun ==
    (InLog("Docker check", "FAILED") \/ InLog("Network check", "FAILED"))
        => /\ log[Len(log)] = <<"Deployment", "FAILED">>
           /\ ret = "false" /\ exitCode = "1"
           /\ ups = 0
           /\ \A j \in 3..Len(StepNames) : ~Attempted(j)
           /\ InLog("Docker check", "FAILED") => ~Attempted(2)
           /\ ~Completed

\* C8 as stated: the steps run in order, each only after every earlier one
\* succeeded, the completion included; a failed precondition ends the run.
C8_EveryStepAfterAllEarlierSucceeded ==
    /\ StepsInOrder
    /\ Completed => \A i \in 1..Len(StepNames) : Succeeded(i)
    /\ PreconditionFailureEndsRun

\* C8 as the code has it: the same, except that the completion follows the
\* reporting step whether that step succeeded or failed.
C8_StepsInOrderReportMayFail ==
    /\ StepsInOrder
    /\ Completed => /\ \A i \in 1..(Len(StepNames) - 1) : Succeeded(i)
                    /\ Attempted(Len(StepNames))
                    /\ log[Len(log)] = <<"Deployment", "COMPLETED">>
    /\ PreconditionFailureEndsRun

\* A run that completed although its reporting step failed.
C8_Witness == dpc = "exit" /\ Completed /\ InLog("Health report", "FAILED")

\* The explicit undeploys of the run.
UndeploysLogged == Cardinality({k \in 1..Len(log) : log[k] = <<"Undeployment", "STARTED">>})

\* C9: when the health check fails or times out, deploy ends as FAILED, the
\* servers it started are still up, and no stop was issued but by an undeploy.
C9_NoTeardownOnHealthFailure ==
    InLog("Health check", "FAILED")
        => /\ ret = "false" /\ exitCode = "1" /\ dpc = "exit"
           /\ running = Services
           /\ downs = UndeploysLogged

\* A deploy whose wait polled twice, timed out, and ended the run.
C9_Witness ==
    /\ cmd = "deploy" /\ dpc = "exit" /\ InLog("Health check", "FAILED")
    /\ iter = 2 /\ running = Services

\* C10: a redeploy that ended has run undeploy first, then the settle delay,
\* then a deploy; also when undeploy failed to stop the servers.
C10_RedeployAlwaysDeploys ==
    (cmd = "redeploy" /\ dpc = "exit")
        => /\ log[1] = <<"Undeployment", "STARTED">>
           /\ now >= SettleDelay
           /\ InLog("Deployment", "STARTED")

-----------------------------------------------------------------------------
(* The deployment log (C11 - C13) *)

\* A deploy run (of deploy or redeploy) that ended.
DeployRunEnded == cmd \in {"deploy", "redeploy"} /\ dpc = "exit"

Outcomes == {"SUCCESS", "FAILED", "INCOMPLETE"}

HasOutcome(i) == \E st \in Outcomes : InLog(StepNames[i], st)

\* C11: when the run has ended, every step it attempted has an entry with its
\* outcome (SUCCESS, FAILED or INCOMPLETE) in the log, a failed server
\* start-up and a failed environment setup included.
C11_EveryAttemptedStepHasOutcome ==
    DeployRunEnded => \A i \in 1..Len(StepNames) : Attempted(i) => HasOutcome(i)

\* The orchestrator state a position of deploy_mcp_servers belongs to.
OrchestratorState(pc, r, e) ==
    CASE pc = "deploy_init"                      -> "INIT"
      [] pc \in {"docker_check", "network_check"} -> "CHECKING_PRECONDITIONS"
      [] pc \in {"env_setup", "startup"}          -> "STARTING"
      [] pc \in {"health", "health_wait"}         -> "VERIFYING"
      [] pc = "report"                           -> "REPORTING"
      [] pc = "complete"                         -> "COMPLETE"
      [] pc = "exit" /\ r = "true"               -> "COMPLETE"
      [] pc = "exit" /\ r # "true"               -> "FAILED"
      [] OTHER                                   -> "NONE"

\* C12: every step of the run that changes the orchestrator state appends
\* exactly one entry to the log.
C12_OneEntryPerTransition ==
    [][ ( /\ OrchestratorState(dpc, ret, exitCode) # "NONE"
          /\ OrchestratorState(dpc', ret', exitCode')
                # OrchestratorState(dpc, ret, exitCode) )
            => Len(log') = Len(log) + 1 ]_vars

Count(step, status) == Cardinality({k \in 1..Len(log) : log[k] = <<step, status>>})

\* The wait of a deploy run returned success from its first poll.
FirstPollPassed ==
    /\ cmd \in {"deploy", "redeploy"}
    /\ impl = "monitor" /\ wpc = "done" /\ wres = "true" /\ iter = 1

\* No service was stopped or started again by the deploy run.
NoRestartIssued == ups = 1 /\ downs = UndeploysLogged

-----------------------------------------------------------------------------
(* The auto-restart of MCPHealthMonitor (C14 - C15) *)

\* C14: in a pass, a service that was checked and found unhealthy with
\* auto-restart enabled got exactly one restart and exactly one re-check; a
\* service found healthy, and every service when auto-restart is disabled,
\* got one check and no restart; a service not yet checked got nothing; and
\* the status being built says "restarted" exactly of the restarted ones.
C14_OneRestartPerUnhealthyService ==
    /\ \A n \in MonNames :
          /\ calls[n].checks > 0 =>
                IF auto_restart /\ calls[n].first = "unhealthy"
                THEN calls[n].restarts = 1 /\ calls[n].checks = 2
                ELSE calls[n].restarts = 0 /\ calls[n].checks = 1
          /\ calls[n].checks = 0 => calls[n].restarts = 0
          /\ restarts[n] >= calls[n].restarts
    /\ calls[GatewayName].checks > 0
          => (hstatus.gateway.restarted <=> calls[GatewayName].restarts = 1)
    /\ \A i \in 1..Len(hstatus.servers) :
          hstatus.servers[i].restarted <=> calls[hstatus.servers[i].name].restarts = 1

\* A second pass with auto-restart that found the gateway healthy and
\* restarted the server, after a first pass that restarted the gateway only.
C14_Witness ==
    /\ auto_restart /\ hpc = "servers" /\ sidx = 2 /\ Len(hlog) = 1
    /\ hlog[1].gateway.restarted /\ restarts[MonServers[1]] = 1
    /\ calls[GatewayName].first = "healthy" /\ calls[GatewayName].restarts = 0
    /\ calls[MonServers[1]].first = "unhealthy" /\ calls[MonServers[1]].restarts = 1

\* What a logged status says of service n.
EntryOf(st, n) ==
    IF n = GatewayName THEN st.gateway
    ELSE IF \E i \in 1..Len(st.servers) : st.servers[i].name = n
         THEN LET i == CHOOSE j \in 1..Len(st.servers) : st.servers[j].name = n
              IN  [healthy |-> st.servers[i].healthy, restarted |-> st.servers[i].restarted]
         ELSE [healthy |-> TRUE, restarted |-> FALSE]

\* The log holds a pass in which n was restarted and its re-check failed.
SurfacedFailure(n) ==
    \E k \in 1..Len(hlog) : EntryOf(hlog[k], n).restarted /\ ~EntryOf(hlog[k], n).healthy

\* C15: once a service was restarted and its re-check failed, no further
\* restart of it is issued in the same monitor run.
C15_NoRestartAfterSurfacedFailure ==
    [][ \A n \in MonNames : SurfacedFailure(n) => restarts'[n] = restarts[n] ]_vars

-----------------------------------------------------------------------------
(* MCPServerManager: start, stop, list, gateway regeneration (C16 - C20) *)

\* The step is a call of op.
IsCall(op) == mops' = mops + 1 /\ mlast'.op = op

\* C16: a start_server call for a name that has an entry in the registry
\* returns that entry, launches no container, scans for no port and begins
\* no health wait, and leaves the registry and the gateway configuration as
\* they were.
C16_StartIsIdempotent ==
    [][ (IsCall("start_server") /\ ServerName(mlast'.arg) \in RegistryNames(running_servers))
          => /\ mret' = [kind    |-> "entry",
                         entries |-> <<EntryFor(ServerName(mlast'.arg), running_servers)>>]
             /\ running_servers' = running_servers
             /\ backend' = backend
             /\ gateway_conf' = gateway_conf /\ confExists' = confExists
             /\ mpc' = "idle" /\ mcur' = mcur /\ mprobes' = 0
      ]_vars

\* The third call of a session, a start of a server that is registered and
\* whose container runs: its entry came back.
C16_Witness ==
    /\ mlast.op = "start_server" /\ mret.kind = "entry" /\ mops = 3
    /\ mret.entries = <<EntryFor(ServerName(mlast.arg), running_servers)>>
    /\ ServerName(mlast.arg) \in DOMAIN backend

\* C17: a stop_server call for a registered server that leaves its container
\* running (the termination failed, or was not confirmed) keeps the entry,
\* does not touch the gateway configuration and returns false; the entry is
\* removed only when the container is gone.
C17_EntryRemovedOnlyAfterTermination ==
    [][ ( /\ IsCall("stop_server")
          /\ ServerName(mlast'.arg) \in RegistryNames(running_servers)
          /\ ServerName(mlast'.arg) \in DOMAIN backend' )
          => /\ running_servers' = running_servers
             /\ gateway_conf' = gateway_conf
             /\ mret'.kind = "false"
      ]_vars

\* C18: what list_servers returns is the set of servers the backend reports
\* running.
C18_ListEqualsBackend ==
    [][ IsCall("list") => RegistryNames(mret'.entries) = DOMAIN backend' ]_vars

\* C19: start_server makes no health probe and does not wait for health.
C19_StartDoesNotWaitForHealth ==
    mprobes = 0 /\ mpc # "waiting"

\* C20: a regeneration that follows a regeneration, with the same registry,
\* leaves the configuration file as the first one wrote it.
C20_RegenerateIsIdempotent ==
    [][ ( /\ IsCall("regenerate") /\ mlast.op = "regenerate"
          /\ running_servers' = running_servers )
          => gateway_conf' = gateway_conf
      ]_vars

-----------------------------------------------------------------------------
(* The gateway configuration and the port scan (C21 - C24) *)

\* How many times sub occurs in s, counted as s.replace would find them.
RECURSIVE Occurrences(_, _)
Occurrences(sub, s) ==
    LET i == Find(sub, s)
    IN  IF i = 0 THEN 0
        ELSE 1 + Occurrences(sub, SubSeq(s, i + Len(sub), Len(s)))

\* Every (name, port) entry a registry of the session can hold.
PossibleEntries ==
    {[name |-> ServerName(m), port |-> q] : m \in Models, q \in PortRangeStart..PortRangeEnd}

\* The entry is in the registry.
Registered(e, reg) == \E i \in 1..Len(reg) : reg[i] = e

\* C21: after every start_server, stop_server and stop_all that changed the
\* registry, the gateway configuration (when the file is there) holds one
\* upstream line for each registered (name, port) and none for any other.
C21_UpstreamListsRunningServices ==
    [][ ( /\ running_servers' # running_servers
          /\ mlast'.op \in {"start_server", "stop_server", "stop_all"}
          /\ confExists )
          => \A e \in PossibleEntries :
                Occurrences(UpstreamLines(<<e>>), gateway_conf')
                    = IF Registered(e, running_servers') THEN 1 ELSE 0
      ]_vars

\* The step runs _update_gateway_config: by itself, or at the end of a
\* start_server or stop_server that changed the registry.
RegenerateInvoked ==
    \/ IsCall("regenerate")
    \/ /\ mlast'.op \in {"start_server", "stop_server"}
       /\ running_servers' # running_servers

\* C22: a regeneration with no gateway configuration file to read fails with
\* the error of the missing file and creates no file.
C22_AbsentTemplateFailsAndWritesNothing ==
    [][ (RegenerateInvoked /\ ~confExists)
          => /\ mret'.kind = "FileNotFoundError"
             /\ ~confExists'
             /\ gateway_conf' = gateway_conf
      ]_vars

\* What the call at hand returns when nothing fails it.
SuccessKind(op) ==
    CASE op = "start_server" -> "entry"
      [] op = "stop_server"  -> "true"
      [] OTHER               -> "none"

\* C23: when the reload signal of a regeneration is not delivered, the file
\* holds what the regeneration wrote, and the start_server, stop_server or
\* regeneration at hand returns what it returns on success.
C23_ReloadFailureDoesNotFail ==
    [][ (RegenerateInvoked /\ reload' = "failed")
          => /\ confExists'
             /\ gateway_conf' = Regenerate(gateway_conf, running_servers')
             /\ mret'.kind = SuccessKind(mlast'.op)
             /\ (mlast'.op = "start_server" =>
                    mret'.entries = <<running_servers'[Len(running_servers')]>>)
      ]_vars

\* A start_server has registered its server and written the configuration,
\* the reload signal was not delivered, and the entry came back.
C23_Witness ==
    /\ reload = "failed" /\ mlast.op = "start_server" /\ mret.kind = "entry"
    /\ Registered(mret.entries[1], running_servers)
    /\ Occurrences(UpstreamLines(mret.entries), gateway_conf) = 1

\* C24: a scan of the inclusive range start..end returns a port of the range
\* when no port of it is occupied, and fails with the no-free-port error
\* exactly when every port of the range, end included, is occupied.
C24_FindFreePortInclusive ==
    (cmd = "find_free_port" /\ dpc = "returned")
        => LET range == args.start..args.end
           IN  /\ (range \cap args.occupied = {} => result[1] \in range)
               /\ (result[1] = RuntimeError <=> range \subseteq args.occupied)

-----------------------------------------------------------------------------
(* The environment file: load and save (C25 - C26) *)

\* The line is neither blank nor a comment, and holds no '='.
Malformed(l) == Strip(l) # "" /\ ~StartsWith(Strip(l), "#") /\ ~Contains("=", Strip(l))

\* C25: loading a file that holds a non-blank, non-comment line without '='
\* raises an error to the caller; no dict comes back from such a file.
C25_MalformedLineRaises ==
    (cmd = "load_env_vars" /\ dpc = "returned"
        /\ \E i \in 1..Len(args.lines) : Malformed(args.lines[i]))
        => result[1].raised # "none"

\* The loader that goes with a save.
LoadFor(a, lines) ==
    IF a.impl = "assign_dynamic_ports" THEN LoadEnvVars(lines, <<>>) ELSE LoadEnvFile(lines, <<>>)

\* The items of a dict, order put aside.
Mapping(d) == {d[i] : i \in 1..Len(d)}

\* C26: the file a save leaves holds one line per key, each the entry of its
\* key, no key twice and no other line; loading it and saving it again
\* leaves a file with the same keys and the same value for each key.
C26_SaveIsFullRewrite ==
    (cmd = "save_env" /\ dpc = "returned" /\ result[1].raised = "none")
        => LET file   == result[1].value
               loaded == LoadFor(args, file)
               again  == SaveEnv(args, file)
           IN  /\ loaded.raised = "none"
               /\ Len(file) = Len(loaded.value)
               /\ Cardinality(DictKeys(loaded.value)) = Len(file)
               /\ \A i \in 1..Len(file) :
                     \E it \in Mapping(loaded.value) : file[i] = it[1] \o "=" \o it[2]
               /\ again.raised = "none"
               /\ Mapping(LoadFor(args, again.value).value) = Mapping(loaded.value)

\* A file with the key A twice and a line without '=' (or a comment) went
\* through assign_dynamic_ports: four lines are left, A once, with the value
\* of its last line.
C26_Witness ==
    /\ cmd = "save_env" /\ dpc = "returned" /\ args.impl = "assign_dynamic_ports"
    /\ args.lines = <<"A=1", "A=2">>
    /\ result[1].raised = "none"
    /\ result[1].value = <<"A=2", "GITHUB_MCP_PORT_RANGE=3000-3000",
                           "MAIN_MCP_HEALTH_PORT_RANGE=8800-8800",
                           "MAIN_MCP_PORT_RANGE=3200-3200">>

-----------------------------------------------------------------------------
(* The HTTP layer and the health report (C27 - C29) *)

\* C29: a probe of the HTTP layer that was answered with a 2xx status counts
\* as healthy whatever the body of the answer is: a JSON document, text
\* that is no JSON, or nothing.
C29_VerdictIgnoresBody ==
    (cmd = "http_probe" /\ dpc = "returned" /\ SuccessStatus(args.answer))
        => result[1].healthy

\* C27: in every generated report overall.healthy is the conjunction of the
\* container, tcp and http verdicts of the report, whatever the resource
\* query gave.
C27_OverallIsConjunctionOfThreeLayers ==
    report.generated
        => report.overall.healthy
              = (/\ report.overall.containers_healthy
                 /\ report.overall.tcp_accessible
                 /\ report.overall.http_healthy)

\* A report generated by the report command while `docker stats` failed:
\* the three layers passed and the report says healthy.
C27_Witness ==
    /\ cmd = "report" /\ dpc = "exit" /\ report.generated
    /\ report.resources = "failed"
    /\ report.overall.containers_healthy /\ report.overall.tcp_accessible
    /\ report.overall.http_healthy /\ report.overall.healthy

\* The deploy run is past a wait that succeeded after layer 3 had failed in
\* an earlier iteration of it.
SucceededAfterHttpFailure ==
    /\ cmd \in {"deploy", "redeploy"} /\ impl = "monitor"
    /\ http_failed /\ wres = "true"

\* C28 as stated: after such a wait the report of the run shows
\* overall.healthy = true.
C28_LaterSuccessReportHealthy ==
    (SucceededAfterHttpFailure /\ report.generated) => report.overall.healthy

\* C28 as the code has it: after a failure of layer 3 in an earlier
\* iteration, an iteration in which layer 3 passes goes on to layer 4, which
\* sets healthy once its query returns, and the wait returns True; the report is compiled from
\* probes made anew, and when they are answered as in the passing iteration
\* it shows overall.healthy = true.
C28_EarlierFailuresDoNotPreventSuccess ==
    /\ [][ (impl = "monitor" /\ http_failed)
             => /\ (wpc = "l3" /\ http_healthy') => wpc' = "l4"
                /\ (wpc = "l4" /\ wpc' # "blocked") => (healthy' /\ wpc' = "ret")
                /\ (wpc = "ret" /\ healthy) => wres' = "true"
         ]_vars
    /\ [] ( (SucceededAfterHttpFailure /\ dpc = "report")
              => \A res \in {"ok", "failed"} :
                    LET same == GenerateHealthReport(containers, tcp_results, http_results, res)
                    IN  same \in ReportsNow /\ same.overall.healthy )

\* A deploy run whose wait failed layer 3 in the first iteration and passed
\* in the second: it completed, and its report says healthy.
C28_Witness ==
    /\ SucceededAfterHttpFailure /\ cmd = "deploy" /\ dpc = "exit" /\ iter = 2
    /\ Completed /\ report.generated /\ report.overall.healthy

-----------------------------------------------------------------------------
(* Two runs against one environment file (C30) *)

\* The range a file holds under a key.
SavedRange(lines, k) == DictGet(LoadEnvVars(lines, <<>>).value, k)

\* Run p takes the step from `from` to `to`.
RunSteps(p, from, to) == rpc[p] = from /\ rpc'[p] = to

\* C30: two runs at once are not safe, because neither the scan nor the save
\* is atomic.  The scan reserves nothing: a run that scans while the other
\* was assigned its ports and has not launched yet is assigned the same ports.
\* The save is the write of what the run read and was assigned: after it the
\* file holds this run's ranges, whatever the other saved in between.
C30_NeitherScanNorSaveIsAtomic ==
    [][ \A p \in Runs :
          /\ RunSteps(p, "scan", "write")
                => \A q \in Runs \ {p} : rpc[q] \in {"write", "up"} => run_ports'[p] = run_ports[q]
          /\ RunSteps(p, "write", "up")
                => \A k \in RangeKeys :
                      SavedRange(store', k) = PortRangeText(run_ports[p][ServiceNameOfKey(k)])
      ]_vars

\* Both runs launched what they were assigned, and it is the same ports.
C30_Witness ==
    /\ cmd \in ConcurrentCommands
    /\ \A p \in Runs : rpc[p] = "done"
    /\ run_ports[1] = run_ports[2]
    /\ run_ports[1]["github"] = 3000

\* One run launched on the ports it saved, and the file holds the ranges of
\* the other.
C30_SavedAssignmentOverwritten ==
    /\ cmd \in ConcurrentCommands
    /\ \A p \in Runs : rpc[p] = "done"
    /\ \E p \in Runs : \E k \in RangeKeys :
          SavedRange(store, k) # PortRangeText(run_ports[p][ServiceNameOfKey(k)])


-----------------------------------------------------------------------------
(* Termination of the health wait (C31) *)

\* A call of a wait loop was made and has not tested its condition yet.
WaitCalled == wpc = "test" /\ iter = 0

\* C31: every call of a health wait returns, with success or, after the
\* timeout, with failure, whatever the backend and the services do.
C31_EveryWaitReturns == WaitCalled ~> (wpc = "done" /\ wres \in {"true", "false"})


-----------------------------------------------------------------------------
(* A start whose health wait fails (C32) *)

\* The health wait of the start_server call in progress ends without
\* "healthy", and start_server returns None.
StartFailsAtWait == mpc = "waiting" /\ mpc' = "idle" /\ mret'.kind = "None"

\* C32: when the health wait of a launched container fails, the container is
\* stopped before start_server returns None, and the registry and the gateway
\* configuration are as they were.
C32_FailedStartStopsContainer ==
    [][ StartFailsAtWait
          => /\ mcur.name \notin DOMAIN backend'
             /\ running_servers' = running_servers
             /\ gateway_conf' = gateway_conf ]_vars


-----------------------------------------------------------------------------
(* The re-check after an auto-restart (C33) *)

\* C33: a server that the restart made running and backend-healthy, and whose
\* endpoint answers the re-check with success, is reported healthy in the
\* status of that pass.
C33_RecheckSeesStateAfterRestart ==
    \A i \in 1..Len(hstatus.servers) :
        (hstatus.servers[i].restarted /\ calls[hstatus.servers[i].name].after = "recovered")
            => hstatus.servers[i].healthy


-----------------------------------------------------------------------------
(* The ports the verification of a deploy run probes (C34) *)

\* The run allocated its ports and its verification probed.
PortsProbed == cmd = "probed_ports" /\ result # <<>> /\ result[1].raised = "none"

\* C34: every entry of the TCP and of the HTTP layer is that of a service
\* the allocation of the run assigned a port to, at a port it assigned: the
\* service's own, or for main at the HTTP layer that of main_health.
C34_ProbedPortsWereAssigned ==
    PortsProbed =>
        LET r == result[1].value
        IN  /\ \A n \in DOMAIN r.tcp :
                    n \in DOMAIN r.assigned /\ r.tcp[n].port = r.assigned[n]
            /\ \A n \in DOMAIN r.http :
                    /\ n \in DOMAIN r.assigned
                    /\ r.http[n].port = CheckPort(r.assigned, n)


-----------------------------------------------------------------------------
(* The health report: overall against servers (C35) *)

\* C35: in a generated report whose overall.healthy is true, every entry of
\* servers has container.healthy, tcp.accessible and http.healthy true.
C35_OverallAgreesWithServers ==
    (cmd = "health_report" /\ result # <<>> /\ result[1].overall.healthy)
        => \A n \in DOMAIN result[1].servers :
              /\ result[1].servers[n].container.healthy
              /\ result[1].servers[n].tcp.accessible
              /\ result[1].servers[n].http.healthy


-----------------------------------------------------------------------------
(* An empty container listing (C36) *)

\* C36: a wait that returned success did so in an iteration whose listing
\* of the backend held at least one container, in both wait loops.
C36_EmptyListingNeverSucceeds ==
    (impl \in {"monitor", "setup"} /\ wres = "true") => DOMAIN containers # {}


-----------------------------------------------------------------------------
(* A failure of the health report (C37) *)

\* The report step of the run failed.
ReportFailed == cmd \in {"deploy", "redeploy"} /\ InLog("Health report", "FAILED")

\* C37: when generating or writing the health report fails, FAILED is logged
\* for the report step and nothing else changes; the run goes on to append
\* Deployment COMPLETED and to return success (exit status 0), it logs no
\* failure of the deployment, and the services it verified are left running.
C37_ReportFailureDoesNotFailDeploy ==
    /\ [][ (dpc = "report" /\ InLog("Health report", "FAILED")')
             => /\ log' = log \o << <<"Health report", "STARTED">>, <<"Health report", "FAILED">> >>
                /\ dpc' = "complete"
                /\ UNCHANGED <<ret, exitCode, report, fileVars, backVars>> ]_vars
    /\ [] ( (ReportFailed /\ dpc = "exit")
               => /\ Completed /\ log[Len(log)] = <<"Deployment", "COMPLETED">>
                  /\ ret = "true" /\ exitCode = "0"
                  /\ ~InLog("Deployment", "FAILED")
                  /\ running = Services /\ NoRestartIssued )
    /\ (ReportFailed ~> (Completed /\ ret = "true" /\ dpc = "exit"))

\* A deploy that completed with success although its report failed.
C37_Witness ==
    /\ cmd = "deploy" /\ dpc = "exit" /\ InLog("Health report", "FAILED")
    /\ Completed /\ ret = "true" /\ exitCode = "0" /\ running = Services /\ ~report.generated


-----------------------------------------------------------------------------
(* A first run that finds the environment not set up (C38) *)

\* The run is at step 4 and the environment file or the secrets directory
\* is missing.
SetupMissing == dpc = "env_setup" /\ (~envExists \/ ~secretsExists)

\* The step logged INCOMPLETE and the run returned False.
EndsIncomplete ==
    /\ log' = log \o << <<"Environment setup", "STARTED">>, <<"Environment setup", "INCOMPLETE">> >>
    /\ ret' = "false" /\ exitCode' = "1" /\ dpc' = "exit"

-----------------------------------------------------------------------------
(* The ports of the registry (C39) *)

\* C39: no two entries of the registry of a manager have the same port.
C39_RegistryPortsDistinct ==
    \A i, j \in 1..Len(running_servers) :
        i # j => running_servers[i].port # running_servers[j].port


-----------------------------------------------------------------------------
(* What the registry holds (C40) *)

\* The entries the step adds to the registry.
Added ==
    {running_servers'[i] : i \in 1..Len(running_servers')}
        \ {running_servers[i] : i \in 1..Len(running_servers)}

\* C40: an entry comes into the registry only at the end of a health wait
\* that passed (the wait is entered only after the launch succeeded, and it
\* passes before its timeout on a container that runs), and it is the entry
\* of the server waited for; a start_server that returns None or raises
\* RuntimeError (no port, launch failed, wait failed) adds nothing; and the
\* server whose wait is going on is not in the registry.
C40_RegisteredOnlyAfterLaunchAndHealth ==
    /\ [][ Added # {}
             => /\ mpc = "waiting" /\ mlast.op = "start_server"
                /\ mwaited < HealthWaitTimeout
                /\ Added = {mcur}
                /\ mcur.name \in DOMAIN backend /\ backend[mcur.name] = mcur.port
                /\ mpc' = "idle" /\ mret'.kind \in {"entry", "FileNotFoundError"} ]_vars
    /\ [][ (mlast'.op = "start_server" /\ mret'.kind \in {"None", "RuntimeError"})
             => running_servers' = running_servers ]_vars
    /\ [] (mpc = "waiting" => ~AlreadyRunning(mcur.name, running_servers))

\* A manager whose registry holds the server whose start succeeded and not
\* the one whose health wait has just failed.
C40_Witness ==
    /\ mpc = "idle" /\ mlast = [op |-> "start_server", arg |-> "b"] /\ mret.kind = "None"
    /\ ServerName("b") \in DOMAIN backend
    /\ RegistryNames(running_servers) = {ServerName("a")}

====
